---------------------------- MODULE Spec2Model ----------------------------
(***************************************************************************)
(* A model of the normalization and validation core of the market-price    *)
(* pipeline (src/src/processors, src/src/validators).                      *)
(*                                                                         *)
(* Representation.                                                         *)
(*  - A Python value is a record with a tag t: None, a str (its field s is *)
(*    the sequence of its characters, each character a one-letter string), *)
(*    an int read from JSON, a float, or NaN.                              *)
(*  - A float is the exact decimal n / 10^d, kept normalized (no trailing  *)
(*    zero in the fraction), so that equality of records is equality of    *)
(*    numbers.  Binary rounding of IEEE doubles is not modelled.           *)
(*  - The module text is ASCII, so                                         *)
(*    a Cyrillic letter is written "~" followed by its transliteration:    *)
(*    "~L" is the capital letter el, "~l" the small one.                   *)
(***************************************************************************)
EXTENDS Integers, Sequences, FiniteSets, TLC

VARIABLES
    pc,          \* "start" before the operation under study ran, "done" after
    price_str,   \* argument of _extract_price
    price_val,   \* value returned by _extract_price
    market,      \* the market whose processor is used (a key of PROCESSOR_MAP)
    market_map,  \* VeroDataProcessor.market_map
    raw,         \* the seven arguments of create_product_data
    result,      \* what create_product_data returned or raised
    raw_data,    \* the file process_market_data is given
    processed,   \* what process_market_data returned or raised
    df,          \* the DataFrame DataValidator.validate is given
    validation_errors,  \* DataValidator.validation_errors
    report,      \* the report _generate_report wrote
    validated_df,  \* the DataFrame validate returned
    orchestration, \* the entry point that runs: main, the DAG, the local runner
    output_files,  \* what scraper.scrape() returned
    xcoms,         \* the values the tasks pushed, by key
    tries,         \* the failed tries of the task instance that runs
    stages,        \* the stages called so far, in the order of the calls
    analytics_df,  \* the DataFrame generate_summary_analytics is given
    summary_report, \* the file generate_summary_analytics wrote
    scraper,       \* the fields of the scraper: its class, limits and counter
    local,         \* the local variables of the scraper's methods that run
    requests,      \* total_products_scraped at each request of a product page
    saved          \* the file _save_data wrote

priceVars == <<price_str, price_val>>
createVars == <<market, market_map, raw, result>>
processVars == <<raw_data, processed>>
validateVars == <<df, validation_errors, report, validated_df>>
pipelineVars ==
    <<orchestration, output_files, xcoms, tries, stages, analytics_df, summary_report,
      scraper, local, requests, saved>>

vars == <<pc, priceVars, createVars, processVars, validateVars, pipelineVars>>

---------------------------------------------------------------------------
(* Python values *)

None == [t |-> "None"]
NaN == [t |-> "nan"]
Str(s) == [t |-> "str", s |-> s]
\* a str of a fixed vocabulary (the keys of the dicts), never empty
Key(k) == [t |-> "key", k |-> k]
PyInt(k) == [t |-> "int", v |-> k]

IsStr(x) == x.t = "str"
IsFloat(x) == x.t = "float"

\* Python truthiness (the test `if x` / `not x`): None, "", 0 and 0.0 are false;
\* NaN is true.
Truthy(x) ==
    CASE x.t = "None"  -> FALSE
      [] x.t = "str"   -> x.s # <<>>
      [] x.t = "int"   -> x.v # 0
      [] x.t = "float" -> x.n # 0
      [] OTHER         -> TRUE

---------------------------------------------------------------------------
(* Decimal numbers *)

RECURSIVE Pow10(_)
Pow10(k) == IF k = 0 THEN 1 ELSE 10 * Pow10(k - 1)

RECURSIVE Float(_, _)
\* the float n / 10^d, normalized
Float(n, d) ==
    IF d > 0 /\ n % 10 = 0
    THEN Float(n \div 10, d - 1)
    ELSE [t |-> "float", n |-> n, d |-> d]

Max(a, b) == IF a >= b THEN a ELSE b

\* the numerator of x over the denominator 10^d, for d >= x.d
Scaled(x, d) == x.n * Pow10(d - x.d)

Less(x, y) == LET d == Max(x.d, y.d) IN Scaled(x, d) < Scaled(y, d)
LessEq(x, y) == LET d == Max(x.d, y.d) IN Scaled(x, d) <= Scaled(y, d)

---------------------------------------------------------------------------
(* Characters and text *)

Digits == {"0", "1", "2", "3", "4", "5", "6", "7", "8", "9"}

DigitVal(c) ==
    CASE c = "0" -> 0 [] c = "1" -> 1 [] c = "2" -> 2 [] c = "3" -> 3
      [] c = "4" -> 4 [] c = "5" -> 5 [] c = "6" -> 6 [] c = "7" -> 7
      [] c = "8" -> 8 [] c = "9" -> 9

Contains(s, c) == \E i \in 1..Len(s) : s[i] = c
Count(s, c) == Cardinality({i \in 1..Len(s) : s[i] = c})
Replace(s, a, b) == [i \in 1..Len(s) |-> IF s[i] = a THEN b ELSE s[i]]
Remove(s, a) == SelectSeq(s, LAMBDA c : c # a)

RECURSIVE StringsUpTo(_, _)
\* every text of at most k characters over the alphabet
StringsUpTo(alphabet, k) ==
    IF k = 0 THEN {<<>>}
    ELSE LET shorter == StringsUpTo(alphabet, k - 1)
         IN shorter \cup {Append(s, c) : s \in shorter, c \in alphabet}

RECURSIVE DigitsToNat(_)
DigitsToNat(s) ==
    IF s = <<>> THEN 0
    ELSE 10 * DigitsToNat(SubSeq(s, 1, Len(s) - 1)) + DigitVal(s[Len(s)])

\* Python float(s) for a text of digits and '.' only: it parses iff there is
\* at least one digit and at most one '.' ("5.", ".5" and "5" parse; "", "."
\* and "1.2.3" raise ValueError).
FloatParses(s) ==
    /\ \A i \in 1..Len(s) : s[i] \in Digits \cup {"."}
    /\ \E i \in 1..Len(s) : s[i] \in Digits
    /\ Count(s, ".") <= 1

FloatOf(s) ==
    LET dot == IF Contains(s, ".")
               THEN CHOOSE i \in 1..Len(s) : s[i] = "."
               ELSE Len(s) + 1
    IN Float(DigitsToNat(Remove(s, ".")), Max(Len(s) - dot, 0))

---------------------------------------------------------------------------
(* DataProcessor._extract_price *)

\* a variant that removes ',' as well
StripNonNumeric_DropsComma(s) == SelectSeq(s, LAMBDA c : c \in Digits \cup {"."})

\* re.sub(r"[^\d.,]", "", price_str)
StripNonNumeric(s) == SelectSeq(s, LAMBDA c : c \in Digits \cup {".", ","})

\* a slip that reads every ',' as a decimal point, whatever else is present
NormalizeSeparators_CommaAlwaysDecimal(price_clean) ==
    Replace(price_clean, ",", ".")

NormalizeSeparators(price_clean) ==
    IF Contains(price_clean, ",") /\ Contains(price_clean, ".")
    THEN Remove(price_clean, ",")
    ELSE IF Contains(price_clean, ",")
         THEN Replace(price_clean, ",", ".")
         ELSE price_clean

_extract_price(p) ==
    IF ~Truthy(p) \/ ~IsStr(p) THEN None
    ELSE LET price_clean == NormalizeSeparators(StripNonNumeric(p.s))
         IN IF FloatParses(price_clean) THEN FloatOf(price_clean) ELSE None

---------------------------------------------------------------------------
(* Letters, case and character classes *)

\* A Cyrillic letter is written "~" followed by its transliteration.
LowerLetters ==
    << "a", "b", "c", "d", "e", "f", "g", "h", "i", "j", "k", "l", "m",
       "n", "o", "p", "q", "r", "s", "t", "u", "v", "w", "x", "y", "z",
       "~a", "~b", "~v", "~g", "~d", "~e", "~zh", "~z", "~i", "~j", "~k",
       "~l", "~m", "~n", "~nj", "~o", "~p", "~r", "~s", "~t", "~u", "~c",
       "~ch", "~dzh", "~sh" >>

UpperLetters ==
    << "A", "B", "C", "D", "E", "F", "G", "H", "I", "J", "K", "L", "M",
       "N", "O", "P", "Q", "R", "S", "T", "U", "V", "W", "X", "Y", "Z",
       "~A", "~B", "~V", "~G", "~D", "~E", "~ZH", "~Z", "~I", "~J", "~K",
       "~L", "~M", "~N", "~NJ", "~O", "~P", "~R", "~S", "~T", "~U", "~C",
       "~CH", "~DZH", "~SH" >>

UpperOf ==
    [c \in {LowerLetters[i] : i \in 1..Len(LowerLetters)} |->
        UpperLetters[CHOOSE i \in 1..Len(LowerLetters) : LowerLetters[i] = c]]

\* str.upper() on one character
UpperChar(c) == IF c \in DOMAIN UpperOf THEN UpperOf[c] ELSE c

\* str.upper()
Upper(s) == [i \in 1..Len(s) |-> UpperChar(s[i])]

\* the regular expression class \s
Whitespace == {" ", "\n", "\t"}

\* str.strip()
RECURSIVE Strip(_)
Strip(s) ==
    IF s = <<>> THEN s
    ELSE IF s[1] \in Whitespace THEN Strip(Tail(s))
    ELSE IF s[Len(s)] \in Whitespace THEN Strip(SubSeq(s, 1, Len(s) - 1))
    ELSE s

\* re.sub(r"\s+", " ", s)
RECURSIVE CollapseWhitespace(_)
CollapseWhitespace(s) ==
    IF s = <<>> THEN s
    ELSE IF s[1] \in Whitespace
         THEN IF Len(s) >= 2 /\ s[2] \in Whitespace
              THEN CollapseWhitespace(Tail(s))
              ELSE <<" ">> \o CollapseWhitespace(Tail(s))
         ELSE <<s[1]>> \o CollapseWhitespace(Tail(s))

\* `needle in haystack` for two str
IsSubstring(needle, haystack) ==
    \E i \in 1..(Len(haystack) - Len(needle) + 1) :
        SubSeq(haystack, i, i + Len(needle) - 1) = needle

---------------------------------------------------------------------------
(* The regular expressions of DataProcessor, matched as re.search does *)

RECURSIVE RunEnd(_, _, _)
\* the last index of the run of characters of `class` that starts at i
RunEnd(s, i, class) ==
    IF i + 1 <= Len(s) /\ s[i + 1] \in class
    THEN RunEnd(s, i + 1, class)
    ELSE i

\* (\d+(?:\.\d+)?) or (\d+) at i: the index of the last character of the
\* greedy match, 0 when s[i] is no digit.  In every pattern of this module the
\* number is followed by \s* and then a letter or '=', so a shorter match of
\* the number (which ends before a digit or a '.') can never be continued:
\* backtracking finds nothing the greedy match does not.
NumberEnd(s, i, fraction) ==
    IF i > Len(s) \/ s[i] \notin Digits THEN 0
    ELSE LET j == RunEnd(s, i, Digits)
         IN IF fraction /\ j + 2 <= Len(s) /\ s[j + 1] = "." /\ s[j + 2] \in Digits
            THEN RunEnd(s, j + 2, Digits)
            ELSE j

\* \s* after index e: the index of the last whitespace character
SkipSpaces(s, e) ==
    IF e + 1 <= Len(s) /\ s[e + 1] \in Whitespace
    THEN RunEnd(s, e + 1, Whitespace)
    ELSE e

\* the literal `lit` at index k, under re.IGNORECASE
LiteralAt(s, k, lit) ==
    /\ k + Len(lit) - 1 <= Len(s)
    /\ \A m \in 1..Len(lit) : UpperChar(s[k + m - 1]) = UpperChar(lit[m])

Min(S) == CHOOSE x \in S : \A y \in S : x <= y

---------------------------------------------------------------------------
(* DataProcessor.MEASUREMENT_PATTERNS and UNIT_TYPE_MAP *)

\* Each entry: the alternatives of "pattern" in the order the pattern lists
\* them, whether the number may have a fraction, and "multipliers" in the
\* same order.  The entries are in the order of the dict.
MEASUREMENT_PATTERNS ==
    << [ type |-> "volume",
         fraction |-> TRUE,
         \* МЛ|Л|ЛТ|ЛИТАР|ЛИТРИ|ML|L|LT
         alternatives |->
            << <<"~M", "~L">>, <<"~L">>, <<"~L", "~T">>,
               <<"~L", "~I", "~T", "~A", "~R">>,
               <<"~L", "~I", "~T", "~R", "~I">>,
               <<"M", "L">>, <<"L">>, <<"L", "T">> >>,
         multipliers |-> <<1, 1000, 1000, 1000, 1000, 1, 1000, 1000>> ],
       [ type |-> "weight",
         fraction |-> TRUE,
         \* Г|ГР|КГ|ГРАМ|КИЛОГРАМ|ГРАМОВИ|КИЛОГРАМИ|КГР|G|GR|KG
         alternatives |->
            << <<"~G">>, <<"~G", "~R">>, <<"~K", "~G">>,
               <<"~G", "~R", "~A", "~M">>,
               <<"~K", "~I", "~L", "~O", "~G", "~R", "~A", "~M">>,
               <<"~G", "~R", "~A", "~M", "~O", "~V", "~I">>,
               <<"~K", "~I", "~L", "~O", "~G", "~R", "~A", "~M", "~I">>,
               <<"~K", "~G", "~R">>,
               <<"G">>, <<"G", "R">>, <<"K", "G">> >>,
         multipliers |-> <<1, 1, 1000, 1, 1000, 1, 1000, 1000, 1, 1, 1000>> ],
       [ type |-> "pieces",
         fraction |-> FALSE,
         \* КОМ|ПАР|БРОЈ|ПАРЧЕ|PAR|PARCE|PARCHE|PCS|PC
         alternatives |->
            << <<"~K", "~O", "~M">>, <<"~P", "~A", "~R">>,
               <<"~B", "~R", "~O", "~J">>,
               <<"~P", "~A", "~R", "~CH", "~E">>,
               <<"P", "A", "R">>, <<"P", "A", "R", "C", "E">>,
               <<"P", "A", "R", "C", "H", "E">>,
               <<"P", "C", "S">>, <<"P", "C">> >>,
         multipliers |-> <<1, 1, 1, 1, 1, 1, 1, 1, 1>> ] >>

\* UNIT_TYPE_MAP.get(unit_type)
UNIT_TYPE_MAP(unit_type) ==
    CASE unit_type = Key("volume") -> Str(<<"l">>)
      [] unit_type = Key("weight") -> Str(<<"k", "g">>)
      [] unit_type = Key("pieces") -> Str(<<"p", "i", "e", "c", "e">>)
      [] OTHER -> None

ConfigOf(unit_type) ==
    MEASUREMENT_PATTERNS[CHOOSE k \in 1..Len(MEASUREMENT_PATTERNS) :
                             MEASUREMENT_PATTERNS[k].type = unit_type]

\* `unit in multipliers`
HasMultiplier(config, unit) ==
    \E k \in 1..Len(config.alternatives) : config.alternatives[k] = unit

\* multipliers[unit]
Multiplier(config, unit) ==
    config.multipliers[CHOOSE k \in 1..Len(config.alternatives) :
                           config.alternatives[k] = unit]

\* x * m / 1000.0
TimesOver1000(x, m) == Float(x.n * m, x.d + 3)

\* x * m
Times(x, m) == Float(x.n * m, x.d)

_convert_to_standard(quantity, unit, unit_type) ==
    LET config == ConfigOf(unit_type)
    IN IF ~HasMultiplier(config, unit) THEN quantity
       ELSE IF unit_type \in {"volume", "weight"}
            THEN TimesOver1000(quantity, Multiplier(config, unit))
            ELSE Times(quantity, Multiplier(config, unit))

NoMeasurement == [quantity |-> None, unit |-> None, unit_type |-> None]

\* config["pattern"] tried at index i: the groups of the match, or found = FALSE
PatternAt(s, i, config) ==
    LET \* e: the end of the number; w: the end of the spaces after it; hits:
        \* the alternatives that match after the spaces
        Groups(e, w, hits) ==
            IF e = 0 \/ hits = {} THEN [found |-> FALSE]
            ELSE [found |-> TRUE,
                  group1 |-> SubSeq(s, i, e),
                  group2 |-> SubSeq(s, w + 1,
                                    w + Len(config.alternatives[Min(hits)]))]
        Unit(e, w) ==
            Groups(e, w, {k \in 1..Len(config.alternatives) :
                             LiteralAt(s, w + 1, config.alternatives[k])})
        Number(e) == Unit(e, SkipSpaces(s, e))
    IN Number(NumberEnd(s, i, config.fraction))

\* re.search(config["pattern"], s, re.IGNORECASE): the leftmost match
PatternSearch(s, config) ==
    LET Leftmost(starts) ==
            IF starts = {} THEN [found |-> FALSE]
            ELSE PatternAt(s, Min(starts), config)
    IN Leftmost({i \in 1..Len(s) : PatternAt(s, i, config).found})

RECURSIVE FirstMeasurement(_, _)
\* the loop over MEASUREMENT_PATTERNS.items(), from entry k on
FirstMeasurement(s, k) ==
    LET Measured(quantity, unit, measurement_type) ==
            [quantity |-> quantity,
             unit |-> Str(unit),
             unit_type |-> Key(measurement_type),
             standard_quantity |->
                 _convert_to_standard(quantity, unit, measurement_type)]
        Iteration(match) ==
            IF match.found
            THEN Measured(FloatOf(match.group1), Upper(match.group2),
                          MEASUREMENT_PATTERNS[k].type)
            ELSE FirstMeasurement(s, k + 1)
    IN IF k > Len(MEASUREMENT_PATTERNS) THEN NoMeasurement
       ELSE Iteration(PatternSearch(s, MEASUREMENT_PATTERNS[k]))

\* a variant that searches the name as it is, ',' and '/' included
_extract_quantity_and_unit_from_product_name_Unsanitized(product_name) ==
    IF ~Truthy(product_name) \/ ~IsStr(product_name) THEN NoMeasurement
    ELSE FirstMeasurement(product_name.s, 1)

_extract_quantity_and_unit_from_product_name(product_name) ==
    IF ~Truthy(product_name) \/ ~IsStr(product_name) THEN NoMeasurement
    ELSE LET sanitized_name == Replace(Replace(product_name.s, ",", "."), "/", " ")
         IN FirstMeasurement(sanitized_name, 1)

---------------------------------------------------------------------------
(* DataProcessor._extract_price_per_unit_value *)

Range(f) == {f[i] : i \in DOMAIN f}

WordChars == Digits \cup {"_"} \cup Range(LowerLetters) \cup Range(UpperLetters)

DEN == <<"~D", "~E", "~N">>        \* ДЕН
DENAR == <<"~D", "~E", "~N", "~A", "~R">>   \* ДЕНАР

\* (\d+(?:\.\d+)?)\s*ДЕН\s*/\s*(\w+) tried at index i
DenPerUnitAt(s, i) ==
    LET \* e: the end of the number; w, a, b: the ends of the spaces after
        \* the number, after ДЕН and after the '/'
        Groups(e, w, a, b) ==
            IF /\ e # 0
               /\ LiteralAt(s, w + 1, DEN)
               /\ a + 1 <= Len(s) /\ s[a + 1] = "/"
               /\ b + 1 <= Len(s) /\ s[b + 1] \in WordChars
            THEN [found |-> TRUE,
                  group1 |-> SubSeq(s, i, e),
                  group2 |-> SubSeq(s, b + 1, RunEnd(s, b + 1, WordChars))]
            ELSE [found |-> FALSE]
        Slash(e, w, a) == Groups(e, w, a, SkipSpaces(s, a + 1))
        Den(e, w) == Slash(e, w, SkipSpaces(s, w + Len(DEN)))
        Number(e) == Den(e, SkipSpaces(s, e))
    IN Number(NumberEnd(s, i, TRUE))

DenPerUnitSearch(s) ==
    LET Leftmost(starts) ==
            IF starts = {} THEN [found |-> FALSE] ELSE DenPerUnitAt(s, Min(starts))
    IN Leftmost({i \in 1..Len(s) : DenPerUnitAt(s, i).found})

\* (\d+(?:\.\d+)?)\s*<lit> searched in s: group 1 of the leftmost match
NumberBeforeSearch(s, lit) ==
    LET Literal(e) == e # 0 /\ LiteralAt(s, SkipSpaces(s, e) + 1, lit)
        Group(i) == SubSeq(s, i, NumberEnd(s, i, TRUE))
        Leftmost(starts) ==
            IF starts = {} THEN [found |-> FALSE]
            ELSE [found |-> TRUE, group1 |-> Group(Min(starts))]
    IN Leftmost({i \in 1..Len(s) : Literal(NumberEnd(s, i, TRUE))})

\* (\d+(?:\.\d+)?)\s*=\s*(\d+(?:\.\d+)?) searched in s: group 2 of the
\* leftmost match
NumberEqualsSearch(s) ==
    LET \* the index where the second number starts, given the end e of the
        \* first and the end w of the spaces after it; 0 when there is no '='
        AfterEquals(e, w) ==
            IF e # 0 /\ w + 1 <= Len(s) /\ s[w + 1] = "="
            THEN SkipSpaces(s, w + 1) + 1
            ELSE 0
        First(e) == AfterEquals(e, SkipSpaces(s, e))
        Second(i) == First(NumberEnd(s, i, TRUE))
        Matches(k) == k # 0 /\ NumberEnd(s, k, TRUE) # 0
        Group(k) == SubSeq(s, k, NumberEnd(s, k, TRUE))
        Leftmost(starts) ==
            IF starts = {} THEN [found |-> FALSE]
            ELSE [found |-> TRUE, group2 |-> Group(Second(Min(starts)))]
    IN Leftmost({i \in 1..Len(s) : Matches(Second(i))})

_extract_price_per_unit_value(ppu_str) ==
    LET \* the loop returns in its first iteration, whose config is the first
        \* entry of MEASUREMENT_PATTERNS
        config == MEASUREMENT_PATTERNS[1]
        PerUnit(price_value, unit) ==
            IF HasMultiplier(config, unit)
            THEN TimesOver1000(price_value, Multiplier(config, unit))
            ELSE price_value
        \* match: the search in the loop; den, denar, equals: the searches of
        \* the three patterns that follow it
        Value(match, den, denar, equals) ==
            IF match.found
            THEN PerUnit(FloatOf(match.group1), Upper(match.group2))
            ELSE IF den.found THEN FloatOf(den.group1)
            ELSE IF denar.found THEN FloatOf(denar.group1)
            ELSE IF equals.found THEN FloatOf(equals.group2)
            ELSE None
        Searched(upper) ==
            Value(DenPerUnitSearch(upper), NumberBeforeSearch(upper, DEN),
                  NumberBeforeSearch(upper, DENAR), NumberEqualsSearch(upper))
    IN IF ~Truthy(ppu_str) \/ ~IsStr(ppu_str) THEN None
       ELSE Searched(Upper(ppu_str.s))

\* abs(x - y) < 0.01
AbsDiffBelowCent(x, y) ==
    LET d == Max(Max(x.d, y.d), 2)
        diff == Scaled(x, d) - Scaled(y, d)
    IN (IF diff < 0 THEN -diff ELSE diff) < Pow10(d - 2)

_extract_quantity_and_unit_from_price_per_unit(price_per_unit, current_price) ==
    LET \* lines 406-410: the text repeats the price of the product
        SamePrice(current_price_clean, ppu_price) ==
            /\ Truthy(current_price_clean)
            /\ Truthy(ppu_price)
            /\ AbsDiffBelowCent(current_price_clean, ppu_price)
    IN IF ~Truthy(price_per_unit) \/ ~IsStr(price_per_unit) THEN NoMeasurement
       ELSE IF SamePrice(_extract_price(current_price),
                         _extract_price_per_unit_value(price_per_unit))
            THEN NoMeasurement
            ELSE FirstMeasurement(price_per_unit.s, 1)

---------------------------------------------------------------------------
(* Name, category and store location *)

_process_product_name(product_name) ==
    IF ~Truthy(product_name) THEN Str(<<>>)
    ELSE Str(Upper(Strip(CollapseWhitespace(product_name.s))))

Uncategorized ==
    Str(<<"U", "n", "c", "a", "t", "e", "g", "o", "r", "i", "z", "e", "d">>)
UnknownLocation ==
    Str(<<"U", "n", "k", "n", "o", "w", "n", " ",
          "L", "o", "c", "a", "t", "i", "o", "n">>)
UnknownStore ==
    Str(<<"U", "n", "k", "n", "o", "w", "n", " ", "S", "t", "o", "r", "e">>)

\* a variant that returns the description as it is
DescriptionCategory_Verbatim(description) ==
    IF Truthy(description) /\ IsStr(description) /\ Strip(description.s) # <<>>
    THEN [raised |-> FALSE, value |-> description]
    ELSE [raised |-> FALSE, value |-> Uncategorized]

\* StandardMarketDataProcessor._get_category and VeroDataProcessor._get_category
\* (the two bodies are the same test)
DescriptionCategory(description) ==
    IF Truthy(description) /\ IsStr(description) /\ Strip(description.s) # <<>>
    THEN [raised |-> FALSE, value |-> Str(Strip(description.s))]
    ELSE [raised |-> FALSE, value |-> Uncategorized]

\* ЈОГУРТ МЛЕКО СИРЕЊЕ КАШКАВАЛ ЗДЕНКА ПАВЛАКА КАЈМАК
DairyKeywords ==
    { <<"~J", "~O", "~G", "~U", "~R", "~T">>,
      <<"~M", "~L", "~E", "~K", "~O">>,
      <<"~S", "~I", "~R", "~E", "~NJ", "~E">>,
      <<"~K", "~A", "~SH", "~K", "~A", "~V", "~A", "~L">>,
      <<"~Z", "~D", "~E", "~N", "~K", "~A">>,
      <<"~P", "~A", "~V", "~L", "~A", "~K", "~A">>,
      <<"~K", "~A", "~J", "~M", "~A", "~K">> }

\* ЛЕБ ПЕЦИВО БАГЕТ КРОАСАН PIJALOK
BakeryKeywords ==
    { <<"~L", "~E", "~B">>,
      <<"~P", "~E", "~C", "~I", "~V", "~O">>,
      <<"~B", "~A", "~G", "~E", "~T">>,
      <<"~K", "~R", "~O", "~A", "~S", "~A", "~N">>,
      <<"P", "I", "J", "A", "L", "O", "K">> }

\* ПИВО ВИНО СОК ВОДА ПИЈАЛОК ВИСКИ КОЊАК ВОДКА ЛИКЕР РАКИЈА РУМ ЏИН
BeverageKeywords ==
    { <<"~P", "~I", "~V", "~O">>, <<"~V", "~I", "~N", "~O">>,
      <<"~S", "~O", "~K">>, <<"~V", "~O", "~D", "~A">>,
      <<"~P", "~I", "~J", "~A", "~L", "~O", "~K">>,
      <<"~V", "~I", "~S", "~K", "~I">>,
      <<"~K", "~O", "~NJ", "~A", "~K">>,
      <<"~V", "~O", "~D", "~K", "~A">>,
      <<"~L", "~I", "~K", "~E", "~R">>,
      <<"~R", "~A", "~K", "~I", "~J", "~A">>,
      <<"~R", "~U", "~M">>, <<"~DZH", "~I", "~N">> }

\* Млечни производи
CategoryDairy ==
    Str(<<"~M", "~l", "~e", "~ch", "~n", "~i", " ",
          "~p", "~r", "~o", "~i", "~z", "~v", "~o", "~d", "~i">>)
\* Леб и пецива
CategoryBakery ==
    Str(<<"~L", "~e", "~b", " ", "~i", " ", "~p", "~e", "~c", "~i", "~v", "~a">>)
\* Пијалоци
CategoryBeverage ==
    Str(<<"~P", "~i", "~j", "~a", "~l", "~o", "~c", "~i">>)

\* TinexDataProcessor._get_category: product_name.upper() is an
\* AttributeError when product_name is None
TinexCategory(description, product_name) ==
    IF ~IsStr(product_name) THEN [raised |-> TRUE, error |-> "AttributeError"]
    ELSE LET name_upper == Upper(product_name.s)
         IN [raised |-> FALSE,
             value |->
                IF \E keyword \in DairyKeywords : IsSubstring(keyword, name_upper)
                THEN CategoryDairy
                ELSE IF \E keyword \in BakeryKeywords : IsSubstring(keyword, name_upper)
                THEN CategoryBakery
                ELSE IF \E keyword \in BeverageKeywords : IsSubstring(keyword, name_upper)
                THEN CategoryBeverage
                ELSE Uncategorized]

\* PROCESSOR_MAP
Markets == {"vero", "zito", "tinex", "stokomak"}

\* the method resolution of _get_category
_get_category(mkt, description, product_name) ==
    IF mkt = "tinex" THEN TinexCategory(description, product_name)
    ELSE DescriptionCategory(description)

\* StandardMarketDataProcessor._create_store_location
StandardStoreLocation(store_name) ==
    IF Truthy(store_name) THEN Str(Strip(store_name.s)) ELSE UnknownLocation

\* store_name.split('_')[0]
BeforeUnderscore(s) ==
    IF Contains(s, "_")
    THEN SubSeq(s, 1, Min({i \in 1..Len(s) : s[i] = "_"}) - 1)
    ELSE s

\* VeroDataProcessor._create_store_location; mmap (market_map) is the content of
\* outputs/vero_market_map.json, a function from mkt codes to names
VeroStoreLocation(mmap, store_name) ==
    IF ~Truthy(store_name) THEN UnknownStore
    ELSE LET market_code == BeforeUnderscore(store_name.s)
         IN IF market_code \in DOMAIN mmap
            THEN Str(mmap[market_code])
            ELSE store_name

_create_store_location(mkt, mmap, store_name) ==
    IF mkt = "vero" THEN VeroStoreLocation(mmap, store_name)
    ELSE StandardStoreLocation(store_name)

---------------------------------------------------------------------------
(* DataProcessor.create_product_data *)

\* d.get(key)
Get(d, key) == IF key \in DOMAIN d THEN d[key] ELSE None

\* a variant whose fallback is a pack of two pieces
DefaultMeasurement_TwoPieces ==
    [quantity |-> Float(2, 0),
     unit |-> Str(<<"P", "I", "E", "C", "E">>),
     unit_type |-> Key("pieces"),
     standard_quantity |-> Float(2, 0)]

DefaultMeasurement ==
    [quantity |-> Float(1, 0),
     unit |-> Str(<<"P", "I", "E", "C", "E">>),
     unit_type |-> Key("pieces"),
     standard_quantity |-> Float(1, 0)]

RECURSIVE LongDivision(_, _, _, _)
\* k more decimal digits of quotient q with remainder rem over den
LongDivision(q, rem, den, k) ==
    IF k = 0 THEN [q |-> q, rem |-> rem]
    ELSE LongDivision(10 * q + (10 * rem) \div den, (10 * rem) % den, den, k - 1)

\* round(num / den, digits) for integers num >= 0, den > 0, as a float with
\* `digits` decimals.  An exact tie is decided by the binary representation
\* of the quotient, which the decimal model does not have: `up` is the
\* direction it takes.
RoundedQuotient(num, den, digits, up) ==
    LET division == LongDivision(num \div den, num % den, den, digits)
        q == division.q
        r == division.rem
    IN Float(IF 2 * r > den \/ (2 * r = den /\ up) THEN q + 1 ELSE q, digits)

\* round(((regular - current) / regular) * 100, 2)
DiscountOf(regular, current, up) ==
    LET d == Max(regular.d, current.d)
        r == Scaled(regular, d)
        c == Scaled(current, d)
    IN Times(RoundedQuotient(r - c, r, 4, up), 100)

\* round(current / standard_quantity, 2)
PricePerUnitOf(current, standard_quantity, up) ==
    RoundedQuotient(current.n * Pow10(standard_quantity.d),
                    standard_quantity.n * Pow10(current.d), 2, up)

Zero == Float(0, 0)

\* a variant that reads a current price that did not parse as a price of 0
discount_of_UnparsedCurrentIsZero(regular_price_val, current_price_val, up) ==
    LET Current(c) == IF c = None THEN Zero ELSE c
    IN IF /\ Truthy(regular_price_val)
          /\ Less(Zero, regular_price_val)
          /\ \/ current_price_val = None
             \/ Truthy(current_price_val) /\ Less(current_price_val, regular_price_val)
       THEN DiscountOf(regular_price_val, Current(current_price_val), up)
       ELSE Zero

\* a variant that divides the price difference by the current price
discount_of_OverCurrent(regular_price_val, current_price_val, up) ==
    LET Markup(r, c) == Times(RoundedQuotient(r - c, c, 4, up), 100)
        Scale(d) == Markup(Scaled(regular_price_val, d), Scaled(current_price_val, d))
    IN IF /\ Truthy(regular_price_val)
          /\ Truthy(current_price_val)
          /\ Less(Zero, regular_price_val)
          /\ Less(current_price_val, regular_price_val)
       THEN Scale(Max(regular_price_val.d, current_price_val.d))
       ELSE Zero

\* discount, lines 175-184
discount_of(regular_price_val, current_price_val, up) ==
    IF /\ Truthy(regular_price_val)
       /\ Truthy(current_price_val)
       /\ Less(Zero, regular_price_val)
       /\ Less(current_price_val, regular_price_val)
    THEN DiscountOf(regular_price_val, current_price_val, up)
    ELSE Zero

\* a variant that tests `current_price_val is not None` instead of its truth
price_per_unit_of_IsNotNone(current_price_val, standard_quantity, up) ==
    IF /\ current_price_val # None
       /\ Truthy(standard_quantity)
       /\ Less(Zero, standard_quantity)
    THEN PricePerUnitOf(current_price_val, standard_quantity, up)
    ELSE None

\* price_per_unit_val, lines 187-190
price_per_unit_of(current_price_val, standard_quantity, up) ==
    IF /\ Truthy(current_price_val)
       /\ Truthy(standard_quantity)
       /\ Less(Zero, standard_quantity)
    THEN PricePerUnitOf(current_price_val, standard_quantity, up)
    ELSE None

\* a variant that prefers the measurement of the price-per-unit field
measurement_of_PpuFirst(name_data, ppu_data) ==
    IF Truthy(Get(ppu_data, "unit_type")) THEN ppu_data
    ELSE IF Truthy(Get(name_data, "unit_type")) THEN name_data
    ELSE DefaultMeasurement

\* measurement_data, lines 159-170
measurement_of(name_data, ppu_data) ==
    IF Truthy(Get(name_data, "unit_type")) THEN name_data
    ELSE IF Truthy(Get(ppu_data, "unit_type")) THEN ppu_data
    ELSE DefaultMeasurement

FINAL_COLUMNS ==
    << "product_name", "current_price", "price_per_unit", "unit", "category",
       "discount_percentage", "store_location" >>

\* The call create_product_data(...) of the processor of market `mkt`, on the raw
\* fields f (each None or a str): the dict it returns, or the exception it
\* raises.  ties gives the direction of the two roundings at an exact tie.
create_product_data(mkt, mmap, f, ties) ==
    LET \* steps 3 and 4, lines 172-208
        Result(current_price_val, regular_price_val, measurement_data, category) ==
            IF category.raised THEN category
            ELSE [raised |-> FALSE,
                  value |->
                     [product_name |-> _process_product_name(f.product_name),
                      current_price |-> current_price_val,
                      price_per_unit |->
                          price_per_unit_of(current_price_val,
                                            Get(measurement_data, "standard_quantity"),
                                            ties.ppu),
                      unit |-> UNIT_TYPE_MAP(Get(measurement_data, "unit_type")),
                      category |-> category.value,
                      discount_percentage |->
                          discount_of(regular_price_val, current_price_val,
                                      ties.discount),
                      store_location |->
                          _create_store_location(mkt, mmap, f.store_name)]]
    IN Result(_extract_price(f.current_price),
              _extract_price(f.regular_price),
              measurement_of(
                  _extract_quantity_and_unit_from_product_name(f.product_name),
                  _extract_quantity_and_unit_from_price_per_unit(
                      f.price_per_unit, f.current_price)),
              _get_category(mkt, f.description, f.product_name))

---------------------------------------------------------------------------
(* DataProcessor._extract_availability *)

\* "DA", "YES", "TRUE", "1", "AVAILABLE", "НА РАСПОЛАГАЊE" (its last letter is
\* the Latin E in the source), "ДА"
available_indicators ==
    { <<"D", "A">>, <<"Y", "E", "S">>, <<"T", "R", "U", "E">>, <<"1">>,
      <<"A", "V", "A", "I", "L", "A", "B", "L", "E">>,
      <<"~N", "~A", " ", "~R", "~A", "~S", "~P", "~O", "~L", "~A", "~G", "~A",
        "~NJ", "E">>,
      <<"~D", "~A">> }

\* "NE", "NO", "FALSE", "0", "UNAVAILABLE", "НЕ", "НЕМА"
unavailable_indicators ==
    { <<"N", "E">>, <<"N", "O">>, <<"F", "A", "L", "S", "E">>, <<"0">>,
      <<"U", "N", "A", "V", "A", "I", "L", "A", "B", "L", "E">>,
      <<"~N", "~E">>, <<"~N", "~E", "~M", "~A">> }

PyTrue == [t |-> "bool", v |-> TRUE]
PyFalse == [t |-> "bool", v |-> FALSE]

_extract_availability(availability) ==
    IF ~Truthy(availability) \/ ~IsStr(availability) THEN None
    ELSE LET availability_upper == Strip(Upper(availability.s))
         IN IF availability_upper \in available_indicators THEN PyTrue
            ELSE IF availability_upper \in unavailable_indicators THEN PyFalse
            ELSE None

---------------------------------------------------------------------------
(* pandas.DataFrame(list of dicts) *)

NumericColumns == {"current_price", "price_per_unit", "discount_percentage"}

\* A column that holds a float and otherwise only None is a float64 column:
\* its None cells are NaN.  Any other column keeps its objects.
DataFrame(records) ==
    LET IsFloatColumn(c) ==
            /\ \E i \in 1..Len(records) : records[i][c].t = "float"
            /\ \A i \in 1..Len(records) : records[i][c].t \in {"float", "None"}
    IN [i \in 1..Len(records) |->
           [c \in DOMAIN records[i] |->
               IF c \in NumericColumns /\ IsFloatColumn(c) /\ records[i][c] = None
               THEN NaN
               ELSE records[i][c]]]

---------------------------------------------------------------------------
(* process_market_data *)

RECURSIVE CreateAll(_, _, _, _, _)
\* the loop of process_market_data over the items from index i on; `skip`
\* says whether the processor filters on availability.  The result is the
\* list built, or the exception of the first call that raises.
CreateAll(mkt, mmap, items, ties, i) ==
    LET Appended(one, rest) ==
            IF one.raised THEN one
            ELSE IF rest.raised THEN rest
            ELSE [raised |-> FALSE, value |-> <<one.value>> \o rest.value]
    IN IF i > Len(items) THEN [raised |-> FALSE, value |-> <<>>]
       ELSE IF mkt = "vero"
               /\ ~(_extract_availability(items[i].availability) = PyTrue)
            THEN CreateAll(mkt, mmap, items, ties, i + 1)
            ELSE Appended(create_product_data(mkt, mmap, items[i], ties),
                          CreateAll(mkt, mmap, items, ties, i + 1))

\* The file at file_path: missing, not JSON, or a JSON list of items.  An
\* item is given by what item.get(...) returns for the seven keys the
\* processor of the market reads (None for a key the item does not have).
FileMissing == [kind |-> "missing"]
FileNotJson == [kind |-> "not_json"]
FileList(items) == [kind |-> "list", items |-> items]

\* StandardMarketDataProcessor.process_market_data (Zito, Tinex, Stokomak)
StandardProcessMarketData(mkt, mmap, file, ties) ==
    LET Frame(clean_data) ==
            IF clean_data.raised THEN clean_data
            ELSE [raised |-> FALSE, value |-> DataFrame(clean_data.value)]
    IN IF file.kind \in {"missing", "not_json"} THEN [raised |-> FALSE, value |-> <<>>]
       ELSE IF file.items = <<>> THEN [raised |-> FALSE, value |-> <<>>]
       ELSE Frame(CreateAll(mkt, mmap, file.items, ties, 1))

\* VeroDataProcessor.process_market_data.  The records of create_product_data
\* have exactly FINAL_COLUMNS, so reindex(columns=FINAL_COLUMNS) changes nothing.
VeroProcessMarketData(mkt, mmap, file, ties) ==
    LET Frame(processed_products) ==
            IF processed_products.raised THEN processed_products
            ELSE IF processed_products.value = <<>>
                 THEN [raised |-> FALSE, value |-> <<>>]
                 ELSE [raised |-> FALSE, value |-> DataFrame(processed_products.value)]
    IN IF file.kind \in {"missing", "not_json"} THEN [raised |-> FALSE, value |-> <<>>]
       ELSE Frame(CreateAll(mkt, mmap, file.items, ties, 1))

process_market_data(mkt, mmap, file, ties) ==
    IF mkt = "vero" THEN VeroProcessMarketData(mkt, mmap, file, ties)
    ELSE StandardProcessMarketData(mkt, mmap, file, ties)

---------------------------------------------------------------------------
(* DataValidator *)

\* The JSON schema of a product record.  A column's rule is the record of its
\* keywords.
_define_schema ==
    [required |-> {FINAL_COLUMNS[i] : i \in 1..Len(FINAL_COLUMNS)},
     properties |->
        [product_name |-> [type |-> {"string"}, minLength |-> 1],
         current_price |-> [type |-> {"number"}, exclusiveMinimum |-> Zero],
         price_per_unit |-> [type |-> {"number", "null"}, exclusiveMinimum |-> Zero],
         unit |-> [type |-> {"string"},
                   enum |-> {Str(<<"k", "g">>), Str(<<"l">>),
                             Str(<<"p", "i", "e", "c", "e">>)}],
         category |-> [type |-> {"string"}],
         discount_percentage |->
             [type |-> {"number"}, minimum |-> Zero, maximum |-> Float(100, 0)],
         store_location |-> [type |-> {"string"}, minLength |-> 1]]]

\* The JSON type jsonschema gives a cell of a record of df.to_dict("records"):
\* a float is a number, and so is NaN
JsonType(v) ==
    CASE v.t = "str"   -> "string"
      [] v.t = "float" -> "number"
      [] v.t = "nan"   -> "number"
      [] v.t = "None"  -> "null"

\* Whether the keyword of a rule rejects the instance.  A keyword on text
\* ignores what is not text, a keyword on numbers what is not a number; the
\* numeric keywords reject by a comparison of floats (instance <= minimum,
\* instance < minimum, instance > maximum), which is false of NaN.
KeywordFails(keyword, rule, instance) ==
    CASE keyword = "type" -> JsonType(instance) \notin rule.type
      [] keyword = "minLength" ->
            IsStr(instance) /\ Len(instance.s) < rule.minLength
      [] keyword = "exclusiveMinimum" ->
            IsFloat(instance) /\ LessEq(instance, rule.exclusiveMinimum)
      [] keyword = "minimum" -> IsFloat(instance) /\ Less(instance, rule.minimum)
      [] keyword = "maximum" -> IsFloat(instance) /\ Less(rule.maximum, instance)
      [] keyword = "enum" -> instance \notin rule.enum

\* jsonschema's iter_errors on one record: the validator and the path of every
\* error (one "required" error per missing key, with an empty path)
SchemaViolations(schema, record) ==
    {[validator |-> "required", path |-> <<>>] : c \in schema.required \ DOMAIN record}
    \cup UNION { {[validator |-> keyword, path |-> <<c>>] :
                     keyword \in {k \in DOMAIN schema.properties[c] :
                                     KeywordFails(k, schema.properties[c], record[c])}} :
                 c \in DOMAIN record \cap DOMAIN schema.properties }

NotAvailable == Str(<<"N", "/", "A">>)

\* The dict appended to validation_errors for the record at index i, from the
\* error jsonschema.validate raised.  Its error_message, a text fixed by the
\* validator, the path and the instance, is left out.
error_details(i, record, e) ==
    [record_index |-> i,
     product_name |-> IF "product_name" \in DOMAIN record THEN record.product_name
                      ELSE NotAvailable,
     validator |-> e.validator,
     path |-> e.path]

RECURSIVE SchemaLoop(_, _, _)
\* The loop over enumerate(records), from the record at position i on (index
\* i - 1): every outcome [valid_records, validation_errors] it can have.
\* jsonschema.validate raises best_match of the record's errors; which error
\* that is depends on the library's ranking, so each is a possible outcome.
SchemaLoop(schema, records, i) ==
    IF i > Len(records)
    THEN {[valid_records |-> <<>>, validation_errors |-> <<>>]}
    ELSE LET rest == SchemaLoop(schema, records, i + 1)
             violations == SchemaViolations(schema, records[i])
         IN IF violations = {}
            THEN {[valid_records |-> <<records[i]>> \o r.valid_records,
                   validation_errors |-> r.validation_errors] : r \in rest}
            ELSE {[valid_records |-> r.valid_records,
                   validation_errors |->
                       <<error_details(i - 1, records[i], e)>> \o r.validation_errors] :
                     r \in rest, e \in violations}

\* the rows of the frame at the positions of the set, in order
Rows(frame, positions) ==
    [k \in 1..Cardinality(positions) |->
        frame[CHOOSE i \in positions : Cardinality({j \in positions : j < i}) = k - 1]]

DuplicateSubset(row) == <<row.product_name, row.store_location>>

\* DataFrame.drop_duplicates(subset=["product_name", "store_location"], keep="first")
drop_duplicates_KeepLast(frame) ==
    Rows(frame, {i \in 1..Len(frame) :
                    \A j \in (i + 1)..Len(frame) :
                        DuplicateSubset(frame[j]) # DuplicateSubset(frame[i])})

drop_duplicates(frame) ==
    Rows(frame, {i \in 1..Len(frame) :
                    \A j \in 1..(i - 1) :
                        DuplicateSubset(frame[j]) # DuplicateSubset(frame[i])})

_generate_report_CountsAllAsPassed(original_count, errors) ==
    [validation_summary |->
        [total_records_processed |-> original_count,
         records_passed_schema |-> original_count,
         records_failed_schema |-> Len(errors)],
     validation_errors |-> errors]

\* The report written to outputs/reports/<market>_validation_report.json
_generate_report(original_count, errors) ==
    [validation_summary |->
        [total_records_processed |-> original_count,
         records_passed_schema |-> original_count - Len(errors),
         records_failed_schema |-> Len(errors)],
     validation_errors |-> errors]

\* DataValidator.validate: every [validation_errors, report, validated_df] a
\* call on the frame can leave.  The error list starts empty whatever the
\* previous call left in it.
validate(schema, frame) ==
    { LET errors == outcome.validation_errors
          valid == DataFrame(outcome.valid_records)
      IN [validation_errors |-> errors,
          report |-> _generate_report(Len(frame), errors),
          validated_df |-> IF valid # <<>> THEN drop_duplicates(valid) ELSE valid] :
      outcome \in SchemaLoop(schema, frame, 1) }

---------------------------------------------------------------------------
(* _is_raw_product_valid of BaseMarketScraper and of VeroScraper *)

\* the parse of _is_raw_product_valid with the commas removed, not replaced
ScraperPrice_DropsComma(current_price_str) ==
    LET price_clean == Remove(StripNonNumeric(current_price_str), ",")
    IN IF FloatParses(price_clean) THEN FloatOf(price_clean) ELSE None

\* price_val of _is_raw_product_valid:
\* float(re.sub(r'[^\d,.]', '', current_price_str).replace(',', '.')),
\* or None where float raises ValueError
ScraperPrice(current_price_str) ==
    LET price_clean == Replace(StripNonNumeric(current_price_str), ",", ".")
    IN IF FloatParses(price_clean) THEN FloatOf(price_clean) ELSE None

\* The two methods differ in the keys of the name and of the price only.
_is_raw_product_valid(product_name, product_price) ==
    LET name == Strip(product_name)
        current_price_str == Strip(product_price)
    IN /\ name # <<>>
       /\ \E k \in DOMAIN name : name[k] \in WordChars
       /\ current_price_str # <<>>
       /\ ScraperPrice(current_price_str) # None
       /\ ~LessEq(ScraperPrice(current_price_str), Zero)

---------------------------------------------------------------------------
(* generate_summary_analytics *)

TopN == 10

isnull(x) == x \in {None, NaN}

RECURSIVE sort_values(_, _, _)
\* DataFrame.sort_values(by="current_price") of the rows at the positions,
\* with the default kind, quicksort, which is not stable: every order it can
\* leave the positions in.  Rows of an equal price come in any order, rows
\* without a price come last.
sort_values(frame, positions, ascending) ==
    LET priced == {i \in positions : ~isnull(frame[i].current_price)}
        \* every enumeration of the set as a sequence
        Enumerations(set) ==
            {s \in [1..Cardinality(set) -> set] :
                \A i, j \in DOMAIN s : s[i] = s[j] => i = j}
        Before(i, j) ==
            IF ascending
            THEN LessEq(frame[i].current_price, frame[j].current_price)
            ELSE LessEq(frame[j].current_price, frame[i].current_price)
    IN IF positions = {} THEN {<<>>}
       ELSE IF priced = {} THEN Enumerations(positions)
       ELSE LET first == CHOOSE i \in priced : \A j \in priced : Before(i, j)
                equal == {i \in priced :
                             frame[i].current_price = frame[first].current_price}
            IN {head \o rest :
                   head \in Enumerations(equal),
                   rest \in sort_values(frame, positions \ equal, ascending)}

\* generate_summary_analytics without the test of df.empty at its start:
\* a report is written for every frame, with a ratio of 0 for no rows
generate_summary_analytics_NoEmptyTest(frame) ==
    {[report_generated_at |-> Key("now"),
      total_products |-> PyInt(Len(frame)),
      discount_ratio |-> Zero]}

\* What generate_summary_analytics(df, output_path) leaves at output_path:
\* None when it writes no file, and otherwise the report, a dict.  The
\* outcomes differ in the order sort_values leaves equal prices in and in the
\* direction a tie of round() goes.
generate_summary_analytics(frame) ==
    IF frame = <<>> THEN {None}
    ELSE
    LET RECURSIVE SumScaled(_, _)
        \* the sum of the prices of the rows at the positions, over 10^d
        SumScaled(positions, d) ==
            IF positions = {} THEN 0
            ELSE LET i == CHOOSE i \in positions : TRUE
                 IN Scaled(frame[i].current_price, d)
                    + SumScaled(positions \ {i}, d)
        total_products == Len(frame)
        products_on_discount ==
            Cardinality({i \in DOMAIN frame :
                            /\ IsFloat(frame[i].discount_percentage)
                            /\ Less(Zero, frame[i].discount_percentage)})
        categories ==
            IF "category" \in DOMAIN frame[1]
            THEN {c \in {frame[i].category : i \in DOMAIN frame} : ~isnull(c)}
            ELSE {}
        rows(c) == {i \in DOMAIN frame : frame[i].category = c}
        priced(c) == {i \in rows(c) : ~isnull(frame[i].current_price)}
        places(c) ==
            CHOOSE d \in {frame[i].current_price.d : i \in priced(c)} :
                \A i \in priced(c) : frame[i].current_price.d <= d
        mean(c, up) ==
            IF priced(c) = {} THEN NaN
            ELSE RoundedQuotient(SumScaled(priced(c), places(c)),
                                 Cardinality(priced(c)) * Pow10(places(c)), 2, up)
        category_analytics(up) ==
            [products_per_category |->
                 [c \in categories |-> PyInt(Cardinality(rows(c)))],
             average_price_per_category |-> [c \in categories |-> mean(c, up)]]
        entry(i) == [product_name |-> frame[i].product_name,
                     current_price |-> frame[i].current_price]
        head(order) == SubSeq(order, 1, Min({TopN, Len(order)}))
        tail(order) ==
            SubSeq(order, Max(1, Len(order) - TopN + 1), Len(order))
        entries(order) == [k \in DOMAIN order |-> entry(order[k])]
        summary(up) ==
            [report_generated_at |-> Key("now"),
             total_products |-> PyInt(total_products),
             products_on_discount |-> PyInt(products_on_discount),
             discount_ratio |->
                 RoundedQuotient(products_on_discount, total_products, 2, up)]
        lists(sorted_df, cheapest) ==
            [top_10_expensive_products |-> entries(head(sorted_df)),
             top__10_cheapest_products |-> entries(cheapest)]
        written(sorted_df, cheapest, up) ==
            IF categories # {}
            THEN summary(up) @@ category_analytics(up) @@ lists(sorted_df, cheapest)
            ELSE summary(up) @@ lists(sorted_df, cheapest)
    IN UNION {{written(sorted_df, cheapest, up) :
                  cheapest \in sort_values(frame, Range(tail(sorted_df)), TRUE),
                  up \in BOOLEAN} :
              sorted_df \in sort_values(frame, DOMAIN frame, FALSE)}

---------------------------------------------------------------------------
(* Specification SpecPrice: _extract_price applied to one argument *)

MaxPriceLen == 3

PriceChars == {"0", "1", ".", ",", "a", "-"}

PriceExamples ==
    { <<"1", ".", "2", "9", "9", ",", "9", "9">>,
      <<"1", "5", "0", ",", "5", "0">>,
      <<"a", "b", "c">>,
      <<"1", ",", "2", "9", "9", ".", "9", "9">>,
      <<"2", "0", "9">> }

PriceInputs ==
    {None, PyInt(0), PyInt(5)}
    \cup {Str(s) : s \in StringsUpTo(PriceChars, MaxPriceLen) \cup PriceExamples}

IdlePrice == price_str = None /\ price_val = None

IdleMarket == market = "zito" /\ market_map = <<>>

IdleCreate == raw = None /\ result = None

IdleProcess == raw_data = None /\ processed = None

\* a DataValidator as __init__ leaves it, and no call of validate
IdleValidate ==
    df = None /\ validation_errors = <<>> /\ report = None /\ validated_df = None

\* no orchestration: the operation under study is called on its own
IdlePipeline ==
    /\ orchestration = "call"
    /\ output_files = None
    /\ xcoms = [raw_data_path |-> None, processed_data_path |-> None,
                validated_data_path |-> None]
    /\ tries = 0
    /\ stages = <<>>
    /\ analytics_df = None
    /\ summary_report = None
    /\ scraper = None
    /\ local = None
    /\ requests = {}
    /\ saved = None

InitPrice ==
    /\ pc = "start"
    /\ price_str \in PriceInputs
    /\ price_val = None
    /\ IdleMarket
    /\ IdleCreate
    /\ IdleProcess
    /\ IdleValidate
    /\ IdlePipeline

ExtractPrice ==
    /\ pc = "start"
    /\ price_val' = _extract_price(price_str)
    /\ pc' = "done"
    /\ UNCHANGED <<price_str, createVars, processVars, validateVars, pipelineVars>>

NextPrice == ExtractPrice

SpecPrice == InitPrice /\ [][NextPrice]_vars

---------------------------------------------------------------------------
(* Specification SpecCreate: one call of create_product_data *)

MaxCreatePriceLen == 2

CreatePriceChars == {"0", "2", ".", ","}

NameInputs ==
    { None,
      Str(<<>>),
      Str(<<" ">>),
      Str(<<"x">>),
      Str(<<" ", "a", " ", " ", "b", " ">>),
      Str(<<"2", "L">>),
      Str(<<"a", " ", "1", ",", "5", " ", "l">>),
      Str(<<"5", "0", "0", "G">>),
      Str(<<"1", "/", "1", "K", "G">>),
      Str(<<"3", "P", "C">>),
      Str(<<"0", "L">>),
      Str(<<"5", " ", "G", " ", "1", "L">>),
      \* МЛЕКО 1Л
      Str(<<"~M", "~L", "~E", "~K", "~O", " ", "1", "~L">>),
      \* ЦЕРАЛИИ ТРИКС 300ГР
      Str(<<"~C", "~E", "~R", "~A", "~L", "~I", "~I", " ",
            "~T", "~R", "~I", "~K", "~S", " ", "3", "0", "0", "~G", "~R">>) }

CurrentPriceExamples ==
    { <<"a", "b", "c">>, <<"0", ".", "0", "0", "4">>, <<"1">>,
      <<"2", "0", "9">>, <<"2", "3", "9">>, <<"1", "5", "5">>,
      <<"1", ",", "5">>, <<"1", ".", "2", ".", "3">>,
      <<"2", "0", "9", " ", "~d", "~e", "~n">> }

CurrentPriceInputs ==
    {None} \cup {Str(s) : s \in StringsUpTo(CreatePriceChars, MaxCreatePriceLen)
                                \cup CurrentPriceExamples}

RegularPriceInputs ==
    { None, Str(<<"0">>), Str(<<"2">>), Str(<<"3", "0", "3">>), Str(<<"0", ",", "5">>) }

Txt_697_den_kg ==
    Str(<<"6", "9", "7", " ", "~d", "~e", "~n", "/", "~k", "~g">>)

PricePerUnitInputs ==
    { None,
      \* 697 ден/кг
      Txt_697_den_kg,
      \* 209 ДЕН/1KG
      Str(<<"2", "0", "9", " ", "~D", "~E", "~N", "/", "1", "K", "G">>),
      \* 2 ДЕН / 100ML
      Str(<<"2", " ", "~D", "~E", "~N", " ", "/", " ", "1", "0", "0", "M", "L">>),
      Str(<<"2", "L">>),
      Str(<<"4", "P", "C", "S">>),
      \* 0 ДЕН/1L
      Str(<<"0", " ", "~D", "~E", "~N", "/", "1", "L">>) }

DescriptionInputs == { None, Str(<<>>), Str(<<" ">>), Str(<<" ", "a", ",", "b", " ">>) }

StoreNameInputs ==
    { None, Str(<<>>), Str(<<" ">>), Str(<<"1", "0", "4", "_", "1">>),
      Str(<<" ", "s", " ">>) }

AvailabilityInputs == { None, Str(<<"~D", "~a">>) }

\* outputs/vero_market_map.json: absent, or one code with its name
MarketMapInputs ==
    { <<>>, [code \in {<<"1", "0", "4">>} |-> <<"V", "E", "R", "O", " ", "7">>] }

\* The names whose measurement differs
MeasuredNameInputs ==
    { name \in NameInputs :
        name \notin { Str(<<>>), Str(<<" ">>), Str(<<" ", "a", " ", " ", "b", " ">>),
                      Str(<<"1", "/", "1", "K", "G">>),
                      Str(<<"~C", "~E", "~R", "~A", "~L", "~I", "~I", " ", "~T", "~R",
                            "~I", "~K", "~S", " ", "3", "0", "0", "~G", "~R">>) } }

\* The raw records of the fixture of tests/test_processor.py, as
\* VeroDataProcessor.process_market_data hands them to create_product_data
VeroTestRecord(name, current, regular, description, ppu) ==
    [product_name |-> Str(name), current_price |-> Str(current),
     regular_price |-> Str(regular), description |-> Str(description),
     price_per_unit |-> Str(ppu), availability |-> Str(<<"~D", "~a">>),
     store_name |-> Str(<<"1", "0", "4">>)]

VeroTestRecords ==
    { \* ЦЕРАЛИИ ТРИКС 300ГР, 209, 303, 697 ден/кг
      VeroTestRecord(
        <<"~C", "~E", "~R", "~A", "~L", "~I", "~I", " ",
          "~T", "~R", "~I", "~K", "~S", " ", "3", "0", "0", "~G", "~R">>,
        <<"2", "0", "9">>, <<"3", "0", "3">>,
        <<"~ch", "~a", "~e", "~v", "~i", ",", "~k", "~a", "~k", "~a", "~o">>,
        <<"6", "9", "7", " ", "~d", "~e", "~n", "/", "~k", "~g">>),
      \* ИНСТАНТ НАПИТОК НЕСКВИК 400Г КЕСА, 239, 299, 598 ден/кг
      VeroTestRecord(
        <<"~N", "~E", "~S", "~K", "~V", "~I", "~K", " ",
          "4", "0", "0", "~G", " ", "~K", "~E", "~S", "~A">>,
        <<"2", "3", "9">>, <<"2", "9", "9">>,
        <<"~k", "~a", "~k", "~a", "~o">>,
        <<"5", "9", "8", " ", "~d", "~e", "~n", "/", "~k", "~g">>),
      \* НАПИТОК ЦЕДЕВИТА ... 455ГР, 155, 205, 341 ден/кг
      VeroTestRecord(
        <<"~C", "~E", "~D", "~E", "~V", "~I", "~T", "~A", " ",
          "4", "5", "5", "~G", "~R">>,
        <<"1", "5", "5">>, <<"2", "0", "5">>,
        <<"~n", "~a", "~p", "~i", "~t", "~o", "~c", "~i">>,
        <<"3", "4", "1", " ", "~d", "~e", "~n", "/", "~k", "~g">>) }

Ties == [discount : BOOLEAN, ppu : BOOLEAN]

\* The calls under study: every market with every name, description and store
\* name; for one market every combination of the fields the prices and the
\* measurement are computed from; and the records of the Vero test.
InitCreate ==
    /\ pc = "start"
    /\ \/ /\ market \in Markets
          /\ market_map \in (IF market = "vero" THEN MarketMapInputs ELSE {<<>>})
          /\ raw \in [product_name : NameInputs,
                      current_price : {Str(<<"2", "0", "9">>)},
                      regular_price : {Str(<<"3", "0", "3">>)},
                      description : DescriptionInputs,
                      price_per_unit : {Txt_697_den_kg},
                      availability : AvailabilityInputs,
                      store_name : StoreNameInputs]
       \/ /\ market = "zito"
          /\ market_map = <<>>
          /\ raw \in [product_name : MeasuredNameInputs,
                      current_price : CurrentPriceInputs,
                      regular_price : RegularPriceInputs,
                      description : {Str(<<"a">>)},
                      price_per_unit : PricePerUnitInputs,
                      availability : {None},
                      store_name : {Str(<<"s">>)}]
       \/ /\ market = "vero"
          /\ market_map \in MarketMapInputs
          /\ raw \in VeroTestRecords
    /\ result = None
    /\ IdlePrice
    /\ IdleProcess
    /\ IdleValidate
    /\ IdlePipeline

CreateProductData ==
    /\ pc = "start"
    /\ \E ties \in Ties :
           result' = create_product_data(market, market_map, raw, ties)
    /\ pc' = "done"
    /\ UNCHANGED <<market, market_map, raw, priceVars, processVars, validateVars, pipelineVars>>

NextCreate == CreateProductData

SpecCreate == InitCreate /\ [][NextCreate]_vars

---------------------------------------------------------------------------
(* Specification SpecProcess: one call of process_market_data *)

MaxItems == 2

\* Да, " da ", НЕ, "maybe", НА РАСПОЛАГАЊЕ (all Cyrillic), or no value
AvailabilityTokens ==
    { None,
      Str(<<"~D", "~a">>),
      Str(<<" ", "d", "a", " ">>),
      Str(<<"~N", "~E">>),
      Str(<<"m", "a", "y", "b", "e">>),
      Str(<<"~N", "~A", " ", "~R", "~A", "~S", "~P", "~O", "~L", "~A", "~G", "~A",
            "~NJ", "~E">>) }

ItemInputs ==
    [product_name : {None, Str(<<"2", "L">>)},
     current_price : {Str(<<"2", "0", "9">>)},
     regular_price : {Str(<<"3", "0", "3">>)},
     description : {Str(<<"a">>)},
     price_per_unit : {None},
     availability : AvailabilityTokens,
     store_name : {Str(<<"1", "0", "4", "_", "1">>)}]

RECURSIVE SeqsUpTo(_, _)
\* every sequence of at most k members of the set
SeqsUpTo(set, k) ==
    IF k = 0 THEN {<<>>}
    ELSE LET shorter == SeqsUpTo(set, k - 1)
         IN shorter \cup {Append(s, x) : s \in shorter, x \in set}

FileInputs ==
    {FileMissing, FileNotJson} \cup {FileList(items) : items \in SeqsUpTo(ItemInputs, MaxItems)}

InitProcess ==
    /\ pc = "start"
    /\ market \in Markets
    /\ market_map \in (IF market = "vero" THEN MarketMapInputs ELSE {<<>>})
    /\ raw_data \in FileInputs
    /\ processed = None
    /\ IdlePrice
    /\ IdleCreate
    /\ IdleValidate
    /\ IdlePipeline

ProcessMarketData ==
    /\ pc = "start"
    /\ \E ties \in Ties :
           processed' = process_market_data(market, market_map, raw_data, ties)
    /\ pc' = "done"
    /\ UNCHANGED <<market, market_map, raw_data, priceVars, createVars, validateVars, pipelineVars>>

NextProcess == ProcessMarketData

SpecProcess == InitProcess /\ [][NextProcess]_vars

---------------------------------------------------------------------------
(* Specification SpecValidate: one call of DataValidator.validate *)

MaxRecords == 3

\* The cells a column of the frame is drawn from
ColumnInputs ==
    [product_name : {Str(<<"A">>), Str(<<>>), None},
     current_price : {Float(50, 0), Float(-10, 0), Zero, NaN, None,
                      Str(<<"5", "0">>)},
     price_per_unit : {None, NaN, Float(20, 0), Zero},
     unit : {Str(<<"k", "g">>), Str(<<"p", "i", "e", "c", "e">>), Str(<<"g">>), None},
     category : {Str(<<"D", "a", "i", "r", "y">>), Str(<<>>), None},
     discount_percentage : {Zero, Float(100, 0), Float(10001, 2), Float(-1, 0), NaN},
     store_location : {Str(<<"S">>), Str(<<>>), None}]

ValidRecord(name, price, store) ==
    [product_name |-> Str(name),
     current_price |-> price,
     price_per_unit |-> None,
     unit |-> Str(<<"l">>),
     category |-> Str(<<"D", "a", "i", "r", "y">>),
     discount_percentage |-> Zero,
     store_location |-> Str(store)]

\* the record without the columns of the set
Without(record, columns) == [c \in DOMAIN record \ columns |-> record[c]]

\* The rows of the frames of several rows: records that pass, with equal and
\* with different keys, and records that fail
RowInputs ==
    { ValidRecord(<<"A">>, Float(50, 0), <<"S">>),
      ValidRecord(<<"A">>, Float(60, 0), <<"S">>),
      ValidRecord(<<"B">>, Float(50, 0), <<"S">>),
      ValidRecord(<<"A">>, Float(50, 0), <<"T">>),
      ValidRecord(<<"A">>, Float(-10, 0), <<"S">>),
      ValidRecord(<<"B">>, None, <<"S">>),
      ValidRecord(<<"A">>, NaN, <<"T">>),
      [ValidRecord(<<"B">>, Float(50, 0), <<"T">>) EXCEPT !.price_per_unit = Float(20, 0)] }

\* The frames under study: one row of any cells; one row with some columns
\* missing; up to MaxRecords rows
FrameInputs ==
    {<<record>> : record \in ColumnInputs}
    \cup {<<Without(ValidRecord(<<"A">>, Float(50, 0), <<"S">>), columns)>> :
             columns \in SUBSET _define_schema.required}
    \cup SeqsUpTo(RowInputs, MaxRecords)

InitValidate ==
    /\ pc = "start"
    /\ df \in FrameInputs
    /\ validation_errors = <<>>
    /\ report = None
    /\ validated_df = None
    /\ IdleMarket
    /\ IdlePrice
    /\ IdleCreate
    /\ IdleProcess
    /\ IdlePipeline

\* self.validation_errors = [] at the start of validate, with the list the
\* previous call left kept instead
ErrorsAtStart_Kept(previous) == previous

\* self.validation_errors = [] at the start of validate: the list the loop
\* appends to, whatever the previous call left
ErrorsAtStart(previous) == <<>>

\* The first call of validate on the instance.  The loop appends the errors
\* of the frame to the list ErrorsAtStart leaves, and _generate_report
\* reads that list.
Validate ==
    /\ pc = "start"
    /\ \E out \in validate(_define_schema, df) :
           /\ validation_errors' =
                  ErrorsAtStart(validation_errors) \o out.validation_errors
           /\ report' = _generate_report(Len(df), validation_errors')
           /\ validated_df' = out.validated_df
    /\ pc' = "done"
    /\ UNCHANGED <<df, market, market_map, priceVars, raw, result, processVars, pipelineVars>>

MaxRepeatRows == 1

\* A further call of validate on the same instance, on another frame.  The
\* frames of a sequence of calls have at most MaxRepeatRows rows; pc is
\* "again" after such a call.
ValidateAgain ==
    /\ pc \in {"done", "again"}
    /\ df \in SeqsUpTo(RowInputs, MaxRepeatRows)
    /\ \E frame \in SeqsUpTo(RowInputs, MaxRepeatRows) :
           /\ df' = frame
           /\ \E out \in validate(_define_schema, frame) :
                  /\ validation_errors' =
                         ErrorsAtStart(validation_errors) \o out.validation_errors
                  /\ report' = _generate_report(Len(frame), validation_errors')
                  /\ validated_df' = out.validated_df
    /\ pc' = "again"
    /\ UNCHANGED <<market, market_map, priceVars, raw, result, processVars, pipelineVars>>

NextValidate == Validate \/ ValidateAgain

SpecValidate == InitValidate /\ [][NextValidate]_vars

---------------------------------------------------------------------------
(* Specification SpecPipeline: one run of main, of the DAG or of           *)
(* run_pipeline_locally, and generate_summary_analytics called on its own  *)

MaxAnalyticsRows == 2

retries == 1

\* pandas.read_csv of what DataFrame.to_csv wrote: a cell without a value
\* and an empty text are both written as an empty field, which is read as
\* NaN; a column whose fields are all numerals is read as numbers.
read_csv(frame) ==
    LET empty(x) == isnull(x) \/ x = Str(<<>>)
        numeral(x) == IsStr(x) /\ x.s # <<>> /\ \A k \in DOMAIN x.s : x.s[k] \in Digits
        numbers(c) ==
            /\ \E i \in DOMAIN frame : ~empty(frame[i][c])
            /\ \A i \in DOMAIN frame : empty(frame[i][c]) \/ numeral(frame[i][c])
    IN [i \in DOMAIN frame |->
           [c \in DOMAIN frame[i] |->
               IF empty(frame[i][c]) THEN NaN
               ELSE IF numbers(c) THEN Float(DigitsToNat(frame[i][c].s), 0)
               ELSE frame[i][c]]]

\* scraper.scrape(): it raises, or returns no file, or the one file it saved,
\* which holds at least one product; a product that is saved passed
\* _is_raw_product_valid.
scrape ==
    LET PipelineItems ==
            [product_name : {Str(<<"2", "L">>)},
             current_price : {Str(<<"2", "0", "9">>)},
             regular_price : {Str(<<"3", "0", "3">>)},
             description : {Str(<<"a">>)},
             price_per_unit : {None},
             availability : {Str(<<"~D", "~a">>), Str(<<"~N", "~E">>)},
             store_name : {Str(<<"1", "0", "4", "_", "1">>), Str(<<" ">>)}]
    IN {[raised |-> TRUE]}
       \cup {[raised |-> FALSE, output_files |-> <<>>, file |-> None]}
       \cup {[raised |-> FALSE, output_files |-> <<Key("raw_data.json")>>,
              file |-> FileList(items)] :
                items \in SeqsUpTo(PipelineItems, MaxItems) \ {<<>>}}

\* The frames generate_summary_analytics is called on: up to MaxAnalyticsRows
\* rows, more than TopN rows, and a frame without the column category
AnalyticsFrames ==
    LET AnalyticsRows ==
            [product_name : {Str(<<"A">>), Str(<<"B">>)},
             current_price : {Float(50, 0), Float(60, 0)},
             category : {Str(<<"D", "a", "i", "r", "y">>), None},
             discount_percentage : {Zero, Float(10, 0)}]
        \* a frame of n rows of different names, whose prices are equal in pairs
        LongFrame(n) ==
            [i \in 1..n |->
                [product_name |-> Str(<<LowerLetters[i]>>),
                 current_price |-> Float(10 * ((i + 1) \div 2), 0),
                 category |-> IF i % 2 = 0 THEN Str(<<"D", "a", "i", "r", "y">>)
                              ELSE Str(<<"B", "a", "k", "e", "r", "y">>),
                 discount_percentage |-> IF i % 3 = 0 THEN Float(10, 0) ELSE Zero]]
    IN SeqsUpTo(AnalyticsRows, MaxAnalyticsRows)
       \cup {LongFrame(n) : n \in (TopN + 1)..(TopN + MaxAnalyticsRows)}
       \cup {<<Without(row, {"category"})>> : row \in AnalyticsRows}

InitPipeline ==
    /\ \/ /\ orchestration = "call"
          /\ pc = "analytics"
          /\ analytics_df \in AnalyticsFrames
          /\ IdleMarket
       \/ /\ orchestration \in {"main", "dag", "local"}
          /\ pc = "scrape"
          /\ analytics_df = None
          /\ market \in Markets
          /\ market_map \in (IF market = "vero" THEN MarketMapInputs ELSE {<<>>})
    /\ output_files = None
    /\ xcoms = [raw_data_path |-> None, processed_data_path |-> None,
                validated_data_path |-> None]
    /\ tries = 0
    /\ stages = <<>>
    /\ summary_report = None
    /\ scraper = None
    /\ local = None
    /\ requests = {}
    /\ saved = None
    /\ IdlePrice
    /\ IdleCreate
    /\ IdleProcess
    /\ IdleValidate

\* generate_summary_analytics(analytics_df, output_path), called on its own
CallAnalytics ==
    /\ orchestration = "call"
    /\ pc = "analytics"
    /\ stages' = Append(stages, "analytics")
    /\ summary_report' \in generate_summary_analytics(analytics_df)
    /\ pc' = "end"
    /\ UNCHANGED <<orchestration, output_files, xcoms, tries, analytics_df, priceVars,
                   createVars, processVars, validateVars, scraper, local, requests,
                   saved>>

\* main(), a step for each stage it calls.  An exception of a stage is
\* caught by the handlers at the end of main, which log it.
main ==
    /\ orchestration = "main"
    /\ \/ /\ pc = "scrape"
          /\ stages' = Append(stages, "scrape")
          /\ \E out \in scrape :
                 IF out.raised
                 THEN pc' = "end" /\ UNCHANGED <<output_files, raw_data>>
                 ELSE /\ output_files' = out.output_files
                      /\ raw_data' = out.file
                      /\ pc' = IF out.output_files = <<>> THEN "end" ELSE "process"
          /\ UNCHANGED <<processed, validateVars, analytics_df, summary_report>>
       \/ /\ pc = "process"
          /\ stages' = Append(stages, "process")
          /\ \E ties \in Ties :
                 processed' = process_market_data(market, market_map, raw_data, ties)
          /\ pc' = IF processed'.raised \/ processed'.value = <<>>
                   THEN "end" ELSE "validate"
          /\ UNCHANGED <<output_files, raw_data, validateVars, analytics_df,
                         summary_report>>
       \/ /\ pc = "validate"
          /\ stages' = Append(stages, "validate")
          /\ df' = processed.value
          /\ \E out \in validate(_define_schema, processed.value) :
                 /\ validation_errors' = out.validation_errors
                 /\ report' = out.report
                 /\ validated_df' = out.validated_df
          /\ pc' = IF validated_df' = <<>> THEN "end" ELSE "analytics"
          /\ UNCHANGED <<output_files, raw_data, processed, analytics_df,
                         summary_report>>
       \/ /\ pc = "analytics"
          /\ stages' = Append(stages, "analytics")
          /\ analytics_df' = validated_df
          /\ summary_report' \in generate_summary_analytics(validated_df)
          /\ pc' = "end"
          /\ UNCHANGED <<output_files, raw_data, processed, validateVars>>
    /\ UNCHANGED <<orchestration, xcoms, tries, market, market_map, priceVars, raw,
                   result, scraper, local, requests, saved>>

\* A task instance that ends with the next task run whatever happened: the
\* exception of a task not ending the run
TaskEnds_GoesOn(failed, next) == pc' = next /\ tries' = 0

\* How a task instance ends.  The DAG runs a task that failed again, up to
\* `retries` times, and runs the next task only after a success; the local
\* runner calls the tasks in one try block.
TaskEnds(failed, next) ==
    IF ~failed THEN pc' = next /\ tries' = 0
    ELSE IF orchestration = "dag" /\ tries < retries
         THEN pc' = pc /\ tries' = tries + 1
         ELSE pc' = "end" /\ tries' = tries

scrape_data_task ==
    /\ orchestration \in {"dag", "local"}
    /\ pc = "scrape"
    /\ stages' = Append(stages, "scrape")
    /\ \E out \in scrape :
           IF out.raised \/ out.output_files = <<>>
           THEN /\ TaskEnds(TRUE, "process")
                /\ output_files' = IF out.raised THEN output_files ELSE out.output_files
                /\ UNCHANGED <<raw_data, xcoms>>
           ELSE /\ TaskEnds(FALSE, "process")
                /\ output_files' = out.output_files
                /\ raw_data' = out.file
                /\ xcoms' = [xcoms EXCEPT !.raw_data_path = out.output_files[1]]
    /\ UNCHANGED <<orchestration, processed, validateVars, analytics_df, summary_report,
                   market, market_map, priceVars, raw, result,
                   scraper, local, requests, saved>>

process_data_task ==
    /\ orchestration \in {"dag", "local"}
    /\ pc = "process"
    /\ IF xcoms.raw_data_path = None \/ raw_data = None
       THEN /\ TaskEnds(TRUE, "validate")
            /\ UNCHANGED <<stages, processed, xcoms>>
       ELSE /\ stages' = Append(stages, "process")
            /\ \E ties \in Ties :
                   processed' = process_market_data(market, market_map, raw_data, ties)
            /\ IF processed'.raised \/ processed'.value = <<>>
               THEN TaskEnds(TRUE, "validate") /\ UNCHANGED xcoms
               ELSE /\ TaskEnds(FALSE, "validate")
                    /\ xcoms' = [xcoms EXCEPT !.processed_data_path =
                                                  Key("processed_data.csv")]
    /\ UNCHANGED <<orchestration, output_files, raw_data, validateVars, analytics_df,
                   summary_report, market, market_map, priceVars, raw, result,
                   scraper, local, requests, saved>>

validate_data_task ==
    /\ orchestration \in {"dag", "local"}
    /\ pc = "validate"
    /\ IF xcoms.processed_data_path = None
       THEN /\ TaskEnds(TRUE, "analytics")
            /\ UNCHANGED <<stages, validateVars, xcoms>>
       ELSE /\ stages' = Append(stages, "validate")
            /\ df' = read_csv(processed.value)
            /\ \E out \in validate(_define_schema, read_csv(processed.value)) :
                   /\ validation_errors' = out.validation_errors
                   /\ report' = out.report
                   /\ validated_df' = out.validated_df
            /\ xcoms' = [xcoms EXCEPT !.validated_data_path =
                                          IF validated_df' = <<>> THEN None
                                          ELSE Key("validated_data.csv")]
            /\ TaskEnds(FALSE, "analytics")
    /\ UNCHANGED <<orchestration, output_files, raw_data, processed, analytics_df,
                   summary_report, market, market_map, priceVars, raw, result,
                   scraper, local, requests, saved>>

generate_analytics_report_task ==
    /\ orchestration \in {"dag", "local"}
    /\ pc = "analytics"
    /\ IF xcoms.validated_data_path = None
       THEN UNCHANGED <<stages, analytics_df, summary_report>>
       ELSE /\ stages' = Append(stages, "analytics")
            /\ analytics_df' = read_csv(validated_df)
            /\ summary_report' \in generate_summary_analytics(read_csv(validated_df))
    /\ TaskEnds(FALSE, "end")
    /\ UNCHANGED <<orchestration, output_files, xcoms, raw_data, processed, validateVars,
                   market, market_map, priceVars, raw, result,
                   scraper, local, requests, saved>>

NextPipeline ==
    \/ CallAnalytics
    \/ main
    \/ scrape_data_task
    \/ process_data_task
    \/ validate_data_task
    \/ generate_analytics_report_task

SpecPipeline == InitPipeline /\ [][NextPipeline]_vars

---------------------------------------------------------------------------
(* Specification SpecScrape: one call of scrape() of a BaseMarketScraper   *)
(* or of the VeroScraper, a step for each stop and each row of a page      *)

MaxLimit == 3
MaxPerPage == 2
MaxMarkets == 2
MaxPages == 2
MaxRows == 3

\* the default of the parameter `retries` of _get_market_urls and of
\* _navigate_to_page; no call passes another value
default_retries == 3

\* the test of the limit with > in place of >=
LimitReached_OneMore ==
    /\ scraper.total_limit # None
    /\ scraper.total_products_scraped > scraper.total_limit.v

\* self.total_limit is not None and self.total_products_scraped >= self.total_limit
LimitReached ==
    /\ scraper.total_limit # None
    /\ scraper.total_products_scraped >= scraper.total_limit.v

\* A page is the sequence of its rows: a row gives a product that passes
\* _is_raw_product_valid, or it does not.  A product is known by the market
\* and the page it was taken from.
InitScrape ==
    /\ pc = "scrape"
    /\ scraper \in [class : {"base", "vero"},
                    total_limit : {None} \cup {PyInt(k) : k \in 0..MaxLimit},
                    per_page_limit : {None} \cup {PyInt(k) : k \in 1..MaxPerPage},
                    total_products_scraped : {0}]
    /\ local = [markets |-> 0, market |-> 1, page_num |-> 1,
                all_market_products |-> <<>>, all_products |-> <<>>,
                rows |-> <<>>, row |-> 1, products |-> <<>>, scraped_before |-> 0,
                failed |-> FALSE, attempts |-> <<>>, market_urls |-> None,
                found |-> None, navigated |-> None]
    /\ requests = {}
    /\ saved = None
    /\ orchestration = "call"
    /\ output_files = None
    /\ xcoms = [raw_data_path |-> None, processed_data_path |-> None,
                validated_data_path |-> None]
    /\ tries = 0
    /\ stages = <<>>
    /\ analytics_df = None
    /\ summary_report = None
    /\ IdlePrice
    /\ IdleMarket
    /\ IdleCreate
    /\ IdleProcess
    /\ IdleValidate

\* BaseMarketScraper.scrape.  The site has at most MaxPages pages of
\* products for a market; after them it answers with the page that says
\* there is none, or with no table.
BaseScrape ==
    LET NextMarket(all_products) ==
            /\ local' = [local EXCEPT !.all_products = all_products,
                                      !.market = @ + 1, !.page_num = 1]
            /\ pc' = IF local.market + 1 > local.markets THEN "save" ELSE "page"
    IN
    /\ scraper.class = "base"
    /\ \/ /\ pc = "scrape"
          /\ \E n \in 0..MaxMarkets :
                 /\ local' = [local EXCEPT !.markets = n]
                 /\ IF n = 0
                    THEN pc' = "done" /\ output_files' = <<>>
                    ELSE pc' = "page" /\ UNCHANGED output_files
          /\ UNCHANGED <<requests, saved>>
       \/ /\ pc = "page"
          /\ IF LimitReached
             THEN pc' = "save" /\ UNCHANGED <<local, requests>>
             ELSE /\ requests' = requests \cup {scraper.total_products_scraped}
                  /\ \/ NextMarket(local.all_products)
                     \/ /\ local.page_num <= MaxPages
                        /\ \E rows \in SeqsUpTo({"valid", "invalid"}, MaxRows) :
                               local' = [local EXCEPT
                                            !.rows = rows, !.row = 1, !.products = <<>>,
                                            !.failed = FALSE,
                                            !.scraped_before =
                                                scraper.total_products_scraped]
                        /\ pc' = "rows"
          /\ UNCHANGED <<output_files, saved>>
       \/ /\ pc = "extracted"
          /\ IF local.products = <<>> /\ LimitReached
             THEN pc' = "save" /\ UNCHANGED local
             ELSE IF local.products = <<>>
             THEN NextMarket(local.all_products)
             ELSE /\ local' = [local EXCEPT !.all_products = @ \o local.products,
                                            !.page_num = @ + 1]
                  /\ pc' = "page"
          /\ UNCHANGED <<output_files, requests, saved>>
       \/ /\ pc = "save"
          /\ IF local.all_products # <<>>
             THEN /\ saved' =
                        IF /\ scraper.total_limit # None
                           /\ Len(local.all_products) > scraper.total_limit.v
                        THEN FileList(SubSeq(local.all_products, 1,
                                             scraper.total_limit.v))
                        ELSE FileList(local.all_products)
                  /\ output_files' = <<Key("raw_data.json")>>
             ELSE saved' = saved /\ output_files' = <<>>
          /\ pc' = "done"
          /\ UNCHANGED <<local, requests>>
    /\ UNCHANGED <<scraper, orchestration, xcoms, tries, stages, analytics_df,
                   summary_report, priceVars, createVars, processVars, validateVars>>

\* BaseMarketScraper._extract_products_from_page, a step for each row.  An
\* exception of the driver at any row ends the method with the products it
\* has so far.
Base_extract_products_from_page ==
    LET product == [market |-> local.market, page |-> local.page_num]
        Returns ==
            \/ LimitReached
            \/ local.row > Len(local.rows)
            \/ /\ scraper.per_page_limit # None
               /\ Len(local.products) >= scraper.per_page_limit.v
    IN
    /\ scraper.class = "base"
    /\ pc = "rows"
    /\ \/ /\ Returns
          /\ pc' = "extracted"
          /\ UNCHANGED <<scraper, local>>
       \/ /\ ~Returns
          /\ pc' = "extracted"
          /\ local' = [local EXCEPT !.failed = TRUE]
          /\ UNCHANGED scraper
       \/ /\ ~Returns
          /\ pc' = pc
          /\ IF local.rows[local.row] = "valid"
             THEN /\ local' = [local EXCEPT !.products = Append(@, product),
                                            !.row = @ + 1]
                  /\ scraper' = [scraper EXCEPT !.total_products_scraped = @ + 1]
             ELSE /\ local' = [local EXCEPT !.row = @ + 1]
                  /\ UNCHANGED scraper
    /\ UNCHANGED <<requests, saved, orchestration, output_files, xcoms, tries, stages,
                   analytics_df, summary_report, priceVars, createVars, processVars,
                   validateVars>>

\* VeroScraper.scrape
VeroScrape ==
    /\ scraper.class = "vero"
    /\ \/ /\ pc = "scrape"
          /\ local' = [local EXCEPT !.attempts = <<>>]
          /\ pc' = "urls"
          /\ UNCHANGED <<output_files, saved>>
       \/ /\ pc = "urls_returned"
          /\ IF local.market_urls.v = 0
             THEN pc' = "done" /\ output_files' = <<>>
             ELSE pc' = "market" /\ UNCHANGED output_files
          /\ local' = [local EXCEPT !.markets = local.market_urls.v, !.market = 1]
          /\ UNCHANGED saved
       \/ /\ pc = "market"
          /\ IF \/ local.market > local.markets
                \/ /\ Truthy(scraper.total_limit)
                   /\ scraper.total_products_scraped >= scraper.total_limit.v
             THEN pc' = "save" /\ UNCHANGED local
             ELSE /\ local' = [local EXCEPT !.all_products = <<>>, !.page_num = 1]
                  /\ pc' = "page"
          /\ UNCHANGED <<output_files, saved>>
       \/ /\ pc = "url_returned"
          /\ local' = [local EXCEPT !.all_market_products = @ \o local.all_products,
                                    !.market = @ + 1]
          /\ pc' = "market"
          /\ UNCHANGED <<output_files, saved>>
       \/ /\ pc = "save"
          /\ IF local.all_market_products = <<>>
             THEN saved' = saved /\ output_files' = <<>>
             ELSE /\ saved' = FileList(local.all_market_products)
                  /\ output_files' = <<Key("raw_data.json")>>
          /\ pc' = "done"
          /\ UNCHANGED local
    /\ UNCHANGED <<scraper, requests, orchestration, xcoms, tries, stages, analytics_df,
                   summary_report, priceVars, createVars, processVars, validateVars>>

\* _get_market_urls going on to the next attempt after one that found links
_get_market_urls_KeepsTrying ==
    /\ scraper.class = "vero"
    /\ pc = "urls"
    /\ IF Len(local.attempts) < default_retries
       THEN /\ \E urls \in 0..MaxMarkets, outcome \in {"links", "no links", "failed"} :
                   local' = [local EXCEPT !.attempts = Append(@, outcome),
                                          !.found = IF outcome = "links"
                                                    THEN PyInt(urls) ELSE @]
            /\ pc' = pc
       ELSE /\ local' = [local EXCEPT !.market_urls =
                                          IF local.found = None THEN PyInt(0)
                                          ELSE local.found]
            /\ pc' = "urls_returned"
    /\ UNCHANGED <<scraper, requests, saved, orchestration, output_files, xcoms, tries,
                   stages, analytics_df, summary_report, priceVars, createVars,
                   processVars, validateVars>>

\* VeroScraper._get_market_urls, a step for each attempt: the links are
\* found (those with an href give the URLs), or find_elements finds none, or
\* a wait or a write raises.  After the last attempt the result is [].
\* local.attempts has the outcome of each attempt of the loop that runs.
_get_market_urls ==
    /\ scraper.class = "vero"
    /\ pc = "urls"
    /\ IF Len(local.attempts) < default_retries
       THEN \/ /\ \E urls \in 0..MaxMarkets :
                      local' = [local EXCEPT !.attempts = Append(@, "links"),
                                             !.found = PyInt(urls),
                                             !.market_urls = PyInt(urls)]
               /\ pc' = "urls_returned"
            \/ /\ \E outcome \in {"no links", "failed"} :
                      local' = [local EXCEPT !.attempts = Append(@, outcome)]
               /\ pc' = pc
       ELSE /\ local' = [local EXCEPT !.market_urls = PyInt(0)]
            /\ pc' = "urls_returned"
    /\ UNCHANGED <<scraper, requests, saved, orchestration, output_files, xcoms, tries,
                   stages, analytics_df, summary_report, priceVars, createVars,
                   processVars, validateVars>>

\* VeroScraper._scrape_products_from_url
_scrape_products_from_url ==
    /\ scraper.class = "vero"
    /\ \/ /\ pc = "page"
          /\ IF LimitReached
             THEN pc' = "url_returned" /\ UNCHANGED local
             ELSE /\ local' = [local EXCEPT !.attempts = <<>>, !.navigated = None]
                  /\ pc' = "navigate"
       \/ /\ pc = "navigated"
          /\ pc' = IF local.navigated = PyTrue THEN "rows" ELSE "url_returned"
          /\ UNCHANGED local
       \/ /\ pc = "extracted"
          /\ IF local.products = <<>>
             THEN pc' = "url_returned" /\ UNCHANGED local
             ELSE /\ local' = [local EXCEPT !.all_products = @ \o local.products,
                                            !.page_num = @ + 1]
                  /\ pc' = "page"
    /\ UNCHANGED <<scraper, requests, saved, orchestration, output_files, xcoms, tries,
                   stages, analytics_df, summary_report, priceVars, createVars,
                   processVars, validateVars>>

\* VeroScraper._navigate_to_page, a step for each attempt: the table of
\* products appears, or the page is a 404, or the attempt fails otherwise.
\* The site has at most MaxPages pages of products for a market.
_navigate_to_page ==
    /\ scraper.class = "vero"
    /\ pc = "navigate"
    /\ IF Len(local.attempts) < default_retries
       THEN /\ requests' = requests \cup {scraper.total_products_scraped}
            /\ \/ /\ local.page_num <= MaxPages
                  /\ \E rows \in SeqsUpTo({"valid", "invalid"}, MaxRows) :
                         local' = [local EXCEPT
                                      !.attempts = Append(@, "table"),
                                      !.navigated = PyTrue,
                                      !.rows = rows, !.row = 1, !.products = <<>>,
                                      !.failed = FALSE,
                                      !.scraped_before = scraper.total_products_scraped]
                  /\ pc' = "navigated"
               \/ /\ local' = [local EXCEPT !.attempts = Append(@, "404"),
                                            !.navigated = PyFalse]
                  /\ pc' = "navigated"
               \/ /\ local' = [local EXCEPT !.attempts = Append(@, "failed")]
                  /\ pc' = pc
       ELSE /\ local' = [local EXCEPT !.navigated = PyFalse]
            /\ pc' = "navigated"
            /\ UNCHANGED requests
    /\ UNCHANGED <<scraper, saved, orchestration, output_files, xcoms, tries, stages,
                   analytics_df, summary_report, priceVars, createVars, processVars,
                   validateVars>>

\* VeroScraper._extract_products_from_page, a step for each row.  An
\* exception of the driver at any row, or a table without headers, ends the
\* method with the products it has so far.
Vero_extract_products_from_page ==
    LET product == [market |-> local.market, page |-> local.page_num]
        Returns ==
            \/ local.row > Len(local.rows)
            \/ /\ scraper.per_page_limit # None
               /\ Len(local.products) >= scraper.per_page_limit.v
            \/ /\ scraper.total_limit # None
               /\ scraper.total_products_scraped + Len(local.products)
                      >= scraper.total_limit.v
    IN
    /\ scraper.class = "vero"
    /\ pc = "rows"
    /\ \/ /\ Returns
          /\ pc' = "extracted"
          /\ UNCHANGED <<scraper, local>>
       \/ /\ ~Returns
          /\ pc' = "extracted"
          /\ local' = [local EXCEPT !.failed = TRUE]
          /\ UNCHANGED scraper
       \/ /\ ~Returns
          /\ pc' = pc
          /\ IF local.rows[local.row] = "valid"
             THEN /\ local' = [local EXCEPT !.products = Append(@, product),
                                            !.row = @ + 1]
                  /\ scraper' = [scraper EXCEPT !.total_products_scraped = @ + 1]
             ELSE /\ local' = [local EXCEPT !.row = @ + 1]
                  /\ UNCHANGED scraper
    /\ UNCHANGED <<requests, saved, orchestration, output_files, xcoms, tries, stages,
                   analytics_df, summary_report, priceVars, createVars, processVars,
                   validateVars>>

NextScrape ==
    \/ BaseScrape
    \/ Base_extract_products_from_page
    \/ VeroScrape
    \/ _get_market_urls
    \/ _scrape_products_from_url
    \/ _navigate_to_page
    \/ Vero_extract_products_from_page

SpecScrape == InitScrape /\ [][NextScrape]_vars

---------------------------------------------------------------------------
(* Claims about _extract_price *)

Txt_1_299_99 == Str(<<"1", ".", "2", "9", "9", ",", "9", "9">>)
Txt_150_50 == Str(<<"1", "5", "0", ",", "5", "0">>)
Txt_abc == Str(<<"a", "b", "c">>)

\* C1: _extract_price gives 1299.99 for "1.299,99", 150.5 for "150,50" and
\* None for "abc".
C1_Examples ==
    pc = "done" =>
        /\ price_str = Txt_1_299_99 => price_val = Float(129999, 2)
        /\ price_str = Txt_150_50 => price_val = Float(1505, 1)
        /\ price_str = Txt_abc => price_val = None

HasDigit(s) == \E i \in 1..Len(s) : s[i] \in Digits

\* C2 as stated: for a price string, the result is None iff no digit is left
\* after stripping everything but digits, '.' and ','.
C2_NullIffNoDigit ==
    pc = "done" /\ IsStr(price_str) =>
        (price_val = None <=> ~HasDigit(StripNonNumeric(price_str.s)))

\* C2 amended: for a price string, the result is None iff the string holds no
\* digit, or holds two or more '.', or holds no '.' and two or more ','.
C2_NullIffNotDecimal ==
    pc = "done" /\ IsStr(price_str) =>
        (price_val = None <=>
            \/ ~HasDigit(price_str.s)
            \/ Count(price_str.s, ".") >= 2
            \/ Count(price_str.s, ".") = 0 /\ Count(price_str.s, ",") >= 2)

C2_Witness ==
    /\ pc = "done"
    /\ IsStr(price_str)
    /\ HasDigit(price_str.s)
    /\ Count(price_str.s, ",") >= 2
    /\ price_val = None

---------------------------------------------------------------------------
(* Claims about create_product_data *)

Built == pc = "done" /\ ~result.raised

\* the measurement the priority rule resolves to: the one of the name if it
\* has a unit kind, else the one of the price-per-unit field if it has one,
\* else one piece
ResolvedQuantity ==
    LET name == _extract_quantity_and_unit_from_product_name(raw.product_name)
        ppu == _extract_quantity_and_unit_from_price_per_unit(
                   raw.price_per_unit, raw.current_price)
    IN IF name.unit_type # None THEN name.standard_quantity
       ELSE IF ppu.unit_type # None THEN ppu.standard_quantity
       ELSE Float(1, 0)

ParsedCurrent == _extract_price(raw.current_price)
ParsedRegular == _extract_price(raw.regular_price)

\* x is num / den rounded to two decimals (either way at a tie)
IsRounded2(x, num, den) ==
    x \in {RoundedQuotient(num, den, 2, FALSE), RoundedQuotient(num, den, 2, TRUE)}

\* C3: create_product_data never raises: for every market and every raw
\* field None, empty, blank or text it returns a record with the seven keys.
C3_NeverRaises ==
    pc = "done" =>
        /\ ~result.raised
        /\ DOMAIN result.value = {FINAL_COLUMNS[i] : i \in 1..Len(FINAL_COLUMNS)}

C5_PricePerUnitPositive ==
    Built =>
        /\ \/ result.value.price_per_unit = None
           \/ Less(Zero, result.value.price_per_unit)
        /\ ParsedCurrent \notin {None, Zero} /\ Less(Zero, ResolvedQuantity) =>
               /\ result.value.price_per_unit # None
               /\ IsRounded2(result.value.price_per_unit,
                             ParsedCurrent.n * Pow10(ResolvedQuantity.d),
                             ResolvedQuantity.n * Pow10(ParsedCurrent.d))

\* the percentage 100 * (regular - current) / regular, rounded to two decimals
IsRoundedDiscount(x, regular, current) ==
    LET d == Max(regular.d, current.d)
        r == Scaled(regular, d)
        c == Scaled(current, d)
    IN x \in {Times(RoundedQuotient(r - c, r, 4, up), 100) : up \in BOOLEAN}

\* C6: whenever both prices parse, regular_price > 0 and current_price <
\* regular_price (a current_price of 0 included), discount_percentage is
\* ((regular - current) / regular) * 100 rounded to two decimals; 303/209
\* gives 31.02, 299/239 gives 20.07 and 205/155 gives 24.39.
C6_DiscountFormula ==
    Built =>
        /\ ParsedCurrent # None /\ ParsedRegular # None
              /\ Less(Zero, ParsedRegular) /\ Less(ParsedCurrent, ParsedRegular) =>
               IsRoundedDiscount(result.value.discount_percentage,
                                 ParsedRegular, ParsedCurrent)
        /\ ParsedRegular = Float(303, 0) /\ ParsedCurrent = Float(209, 0) =>
               result.value.discount_percentage = Float(3102, 2)
        /\ ParsedRegular = Float(299, 0) /\ ParsedCurrent = Float(239, 0) =>
               result.value.discount_percentage = Float(2007, 2)
        /\ ParsedRegular = Float(205, 0) /\ ParsedCurrent = Float(155, 0) =>
               result.value.discount_percentage = Float(2439, 2)

---------------------------------------------------------------------------
(* Claims about process_market_data *)

RecognizedAvailable(item) ==
    /\ IsStr(item.availability)
    /\ Strip(Upper(item.availability.s)) \in available_indicators

AvailableItems == SelectSeq(raw_data.items, RecognizedAvailable)

Processed == pc = "done" /\ raw_data # None /\ raw_data.kind = "list"

\* C10: with the processor of any market, process_market_data returns one
\* record per raw item whose availability is a recognized available token, in
\* input order, and nothing for any other item.
C10_OnlyAvailableEmitted ==
    Processed /\ ~processed.raised =>
        /\ Len(processed.value) = Len(AvailableItems)
        /\ \A i \in 1..Len(processed.value) :
               processed.value[i].product_name
                   = _process_product_name(AvailableItems[i].product_name)

---------------------------------------------------------------------------
(* Claims about DataValidator.validate *)

Validated == pc = "done" /\ report # None

\* the record at position i of df was put in the valid subset: no error
\* carries its index
Accepted(i) ==
    \A k \in 1..Len(validation_errors) : validation_errors[k].record_index # i - 1

Positive(v) == IsFloat(v) /\ Less(Zero, v)

\* the conditions the contract puts on a record; a price_per_unit of NaN,
\* the null of a float column, counts as null
MeetsContract(record) ==
    /\ _define_schema.required \subseteq DOMAIN record
    /\ IsStr(record.product_name) /\ record.product_name.s # <<>>
    /\ Positive(record.current_price)
    /\ record.price_per_unit \in {None, NaN} \/ Positive(record.price_per_unit)
    /\ record.unit \in {Str(<<"k", "g">>), Str(<<"l">>), Str(<<"p", "i", "e", "c", "e">>)}
    /\ IsStr(record.category)
    /\ IsFloat(record.discount_percentage)
    /\ LessEq(Zero, record.discount_percentage)
    /\ LessEq(record.discount_percentage, Float(100, 0))
    /\ IsStr(record.store_location) /\ record.store_location.s # <<>>

\* C7: validate puts a record in the valid subset if and only if all seven
\* keys are present, product_name and store_location are non-empty strings,
\* current_price is a number > 0, price_per_unit is null or a number > 0,
\* unit is kg, l or piece, category is a string and discount_percentage is a
\* number in [0, 100]; so a record without a current_price is rejected.
C7_ValidIffContract ==
    Validated =>
        \A i \in 1..Len(df) : Accepted(i) <=> MeetsContract(df[i])

\* the positions of the records that passed the schema and are the first such
\* record of their (product_name, store_location) key
FirstValidOfKey ==
    {i \in 1..Len(df) :
        /\ Accepted(i)
        /\ \A j \in 1..(i - 1) :
               Accepted(j) => DuplicateSubset(df[j]) # DuplicateSubset(df[i])}

\* equal, but for a null cell that the new frame holds as NaN
SameRecord(a, b) ==
    /\ DOMAIN a = DOMAIN b
    /\ \A c \in DOMAIN a : a[c] = b[c] \/ {a[c], b[c]} = {None, NaN}

\* C8: the frame validate returns holds, in input order, exactly the first
\* schema-valid record of every (product_name, store_location) key that has a
\* schema-valid record: no schema-invalid record, no second record of a key,
\* and no key lost to an invalid record that came earlier.
C8_FirstValidPerKey ==
    Validated =>
        /\ Len(validated_df) = Cardinality(FirstValidOfKey)
        /\ \A k \in 1..Len(validated_df) :
               SameRecord(validated_df[k], Rows(df, FirstValidOfKey)[k])

\* an invalid record, then two different valid records, all of one key: the
\* first valid one is what is returned
C8_Witness ==
    /\ Validated
    /\ Len(df) = 3
    /\ ~Accepted(1) /\ Accepted(2) /\ Accepted(3)
    /\ DuplicateSubset(df[1]) = DuplicateSubset(df[2])
    /\ DuplicateSubset(df[2]) = DuplicateSubset(df[3])
    /\ df[2] # df[3]
    /\ validated_df = <<df[2]>>

\* the positions of the records the schema rejects
Failing == {i \in 1..Len(df) : SchemaViolations(_define_schema, df[i]) # {}}

\* C9: after validate ran on N records the report counts N processed, as
\* failed the records the schema rejects and as passed the others, and
\* validation_errors holds one entry per rejected record, with its index, the
\* indices strictly increasing.
C9_ReportCounts ==
    Validated =>
        /\ report.validation_summary.total_records_processed = Len(df)
        /\ report.validation_summary.records_failed_schema = Cardinality(Failing)
        /\ report.validation_summary.records_passed_schema
               = Len(df) - Cardinality(Failing)
        /\ report.validation_errors = validation_errors
        /\ Len(validation_errors) = Cardinality(Failing)
        /\ \A k \in 1..Len(validation_errors) :
               /\ validation_errors[k].record_index + 1 \in Failing
               /\ k > 1 => validation_errors[k - 1].record_index
                               < validation_errors[k].record_index

\* three records, the first and the last rejected
C9_Witness ==
    /\ Validated
    /\ Len(df) = 3
    /\ Failing = {1, 3}
    /\ report.validation_summary.records_failed_schema = 2
    /\ report.validation_summary.records_passed_schema = 1
    /\ Len(validation_errors) = 2

---------------------------------------------------------------------------
(* Claims about the measurement create_product_data uses *)

NameData == _extract_quantity_and_unit_from_product_name(raw.product_name)

PpuData ==
    _extract_quantity_and_unit_from_price_per_unit(raw.price_per_unit,
                                                    raw.current_price)

\* the unit kind and the standard quantity the priority rule of the contract
\* chooses
ChosenKind ==
    IF NameData.unit_type # None THEN NameData.unit_type
    ELSE IF PpuData.unit_type # None THEN PpuData.unit_type
    ELSE Key("pieces")

ChosenQuantity ==
    IF NameData.unit_type # None THEN NameData.standard_quantity
    ELSE IF PpuData.unit_type # None THEN PpuData.standard_quantity
    ELSE Float(1, 0)

\* volume -> l, weight -> kg, pieces -> piece
UnitOfKind(kind) ==
    IF kind = Key("volume") THEN Str(<<"l">>)
    ELSE IF kind = Key("weight") THEN Str(<<"k", "g">>)
    ELSE Str(<<"p", "i", "e", "c", "e">>)

\* C11: the record is built from the measurement of the product name whenever
\* that has a unit kind, else from the one of the price-per-unit field if it
\* has one, else from one piece: its unit is the unit of the chosen kind,
\* never null, and its price_per_unit is computed with the chosen standard
\* quantity.
C11_MeasurementPriority ==
    Built =>
        /\ result.value.unit = UnitOfKind(ChosenKind)
        /\ result.value.unit # None
        /\ result.value.price_per_unit # None =>
               /\ ChosenQuantity # Zero
               /\ IsRounded2(result.value.price_per_unit,
                             ParsedCurrent.n * Pow10(ChosenQuantity.d),
                             ChosenQuantity.n * Pow10(ParsedCurrent.d))

\* the name gives a weight, the price-per-unit field a volume: the weight wins
C11_Witness ==
    /\ Built
    /\ NameData.unit_type = Key("weight")
    /\ PpuData.unit_type = Key("volume")
    /\ result.value.unit = Str(<<"k", "g">>)
    /\ result.value.price_per_unit # None

\* no measurement pattern matches in the product name nor in the text of the
\* price-per-unit field
NoDetectableMeasurement ==
    /\ NameData.unit_type = None
    /\ \/ ~IsStr(raw.price_per_unit)
       \/ FirstMeasurement(raw.price_per_unit.s, 1).unit_type = None

Piece == Str(<<"p", "i", "e", "c", "e">>)

---------------------------------------------------------------------------
(* Claims about _extract_quantity_and_unit_from_product_name *)

KindOrder == <<"volume", "weight", "pieces">>

\* the name with ',' replaced by '.' and '/' by a space
SanitizedName == Replace(Replace(raw.product_name.s, ",", "."), "/", " ")

\* the kinds, by their place in KindOrder, whose pattern matches somewhere in s
MatchingKinds(s) ==
    {k \in 1..3 : PatternSearch(s, ConfigOf(KindOrder[k])).found}

\* quantity * multiplier / 1000 for volume and weight, quantity * multiplier
\* for pieces
StandardOf(kind, quantity, multiplier) ==
    IF kind \in {"volume", "weight"}
    THEN Float(quantity.n * multiplier, quantity.d + 3)
    ELSE Float(quantity.n * multiplier, quantity.d)

AllNull(data) ==
    /\ Get(data, "quantity") = None
    /\ Get(data, "unit") = None
    /\ Get(data, "unit_type") = None
    /\ Get(data, "standard_quantity") = None

Name_Trix300 ==
    Str(<<"~C", "~E", "~R", "~A", "~L", "~I", "~I", " ",
          "~T", "~R", "~I", "~K", "~S", " ", "3", "0", "0", "~G", "~R">>)

Name_Mleko1 == Str(<<"~M", "~L", "~E", "~K", "~O", " ", "1", "~L">>)

\* C13: the measurement of a product name is that of the first kind, in the
\* order volume, weight, pieces, whose pattern matches somewhere in the
\* sanitized name, with the standard quantity quantity * multiplier / 1000
\* (volume, weight) or quantity * multiplier (pieces); every field is null
\* when no kind matches or the name is missing; the two named examples give
\* weight 0.3 and volume 1.0.
C13_FirstKindInOrder ==
    LET Expected(kind, config, match) ==
            /\ NameData.unit_type = Key(kind)
            /\ NameData.quantity = FloatOf(match.group1)
            /\ NameData.unit = Str(Upper(match.group2))
            /\ NameData.standard_quantity =
                   StandardOf(kind, FloatOf(match.group1),
                              Multiplier(config, Upper(match.group2)))
        First(kinds) ==
            IF kinds = {} THEN AllNull(NameData)
            ELSE Expected(KindOrder[Min(kinds)],
                          ConfigOf(KindOrder[Min(kinds)]),
                          PatternSearch(SanitizedName,
                                        ConfigOf(KindOrder[Min(kinds)])))
    IN pc = "done" =>
        /\ IF IsStr(raw.product_name)
           THEN First(MatchingKinds(SanitizedName))
           ELSE AllNull(NameData)
        /\ raw.product_name = Name_Trix300 =>
               /\ NameData.unit_type = Key("weight")
               /\ NameData.standard_quantity = Float(3, 1)
        /\ raw.product_name = Name_Mleko1 =>
               /\ NameData.unit_type = Key("volume")
               /\ NameData.standard_quantity = Float(1, 0)

\* "5 G 1L": the weight token comes first in the text, the volume is returned
C13_Witness ==
    /\ Built
    /\ raw.product_name = Str(<<"5", " ", "G", " ", "1", "L">>)
    /\ MatchingKinds(SanitizedName) = {1, 2}
    /\ NameData.unit_type = Key("volume")
    /\ NameData.standard_quantity = Float(1, 0)
    /\ result.value.unit = Str(<<"l">>)

---------------------------------------------------------------------------
(* Claims about _extract_quantity_and_unit_from_price_per_unit *)

\* the per-unit price read from the price-per-unit text
PpuPrice == _extract_price_per_unit_value(raw.price_per_unit)

\* both prices parse and differ by less than 0.01
SamePrices ==
    /\ ParsedCurrent # None
    /\ PpuPrice # None
    /\ AbsDiffBelowCent(ParsedCurrent, PpuPrice)

\* C14: whenever the current price and the per-unit price of the
\* price-per-unit text both parse and differ by less than 0.01, both 0
\* included, the measurement of the price-per-unit field is all null, a
\* quantity and unit in the text notwithstanding; a measurement of the name
\* is used all the same.
C14_SamePriceGivesNull ==
    pc = "done" =>
        /\ SamePrices => AllNull(PpuData)
        /\ (Built /\ SamePrices /\ NameData.unit_type # None) =>
               result.value.unit = UnitOfKind(NameData.unit_type)

---------------------------------------------------------------------------
(* Claims about the steps of _extract_price *)

\* the characters of s that are digits, '.' or ','
Kept(s) == SelectSeq(s, LAMBDA c : c \in Digits \/ c = "." \/ c = ",")

\* both separators left: every ',' deleted; else every ',' read as '.'
Separated(kept) ==
    IF (\E i \in 1..Len(kept) : kept[i] = ",") /\ (\E i \in 1..Len(kept) : kept[i] = ".")
    THEN SelectSeq(kept, LAMBDA c : c # ",")
    ELSE [i \in 1..Len(kept) |-> IF kept[i] = "," THEN "." ELSE kept[i]]

\* the number of digits after the '.' of a decimal numeral
FractionDigits(numeral) ==
    IF \E i \in 1..Len(numeral) : numeral[i] = "."
    THEN Len(numeral) - (CHOOSE i \in 1..Len(numeral) : numeral[i] = ".")
    ELSE 0

---------------------------------------------------------------------------
(* Claims about discount_percentage *)

Discount == result.value.discount_percentage

\* C16: whenever the regular price is not above the current price, or one of
\* the two prices does not parse, discount_percentage is exactly 0.
C16_ZeroWithoutPriceDrop ==
    (/\ Built
     /\ \/ ParsedRegular = None
        \/ ParsedCurrent = None
        \/ LessEq(ParsedRegular, ParsedCurrent)) => Discount = Zero

\* a regular price below the current one, both parsed and not 0; and a
\* regular price that parsed next to a current price that did not
C16_Witness ==
    /\ Built
    /\ \/ /\ ParsedRegular \notin {None, Zero}
          /\ ParsedCurrent # None
          /\ Less(ParsedRegular, ParsedCurrent)
       \/ /\ ParsedRegular \notin {None, Zero}
          /\ ParsedCurrent = None
    /\ Discount = Zero

---------------------------------------------------------------------------
(* Claims about store_location and category *)

\* missing, empty or made of whitespace only
Blank(v) == v = None \/ (IsStr(v) /\ \A i \in 1..Len(v.s) : v.s[i] \in Whitespace)

\* C18: the store_location of the standard strategy is a non-empty text:
\* "Unknown Location" for a blank store name (missing, empty or whitespace
\* only), else the store name without its surrounding whitespace.
C18_StoreLocationNonEmpty ==
    (Built /\ market # "vero") =>
        /\ IsStr(result.value.store_location)
        /\ result.value.store_location.s # <<>>
        /\ result.value.store_location =
               IF Blank(raw.store_name) THEN UnknownLocation
               ELSE Str(Strip(raw.store_name.s))

\* the markets whose processor has the _get_category of the standard or of
\* the Vero strategy
DescriptionMarkets == {"zito", "stokomak", "vero"}

\* C19: the category of the standard and of the Vero strategy is the
\* description without its surrounding whitespace when the description has a
\* character that is not whitespace, and "Uncategorized" when it is missing,
\* empty or whitespace only, whatever the product name.
C19_CategoryFromDescription ==
    (Built /\ market \in DescriptionMarkets) =>
        result.value.category =
            IF Blank(raw.description) THEN Uncategorized
            ELSE Str(Strip(raw.description.s))

\* a description with whitespace around it, next to a product name with a
\* dairy keyword
C19_Witness ==
    /\ Built /\ market \in DescriptionMarkets
    /\ raw.product_name = Name_Mleko1
    /\ raw.description = Str(<<" ", "a", ",", "b", " ">>)
    /\ result.value.category = Str(<<"a", ",", "b">>)

---------------------------------------------------------------------------
(* Claims about the failures of process_market_data *)

\* C20: what process_market_data returns for a file that is missing or is
\* not JSON differs from what it returns for a file with an empty list.
C20_FailureDistinguishable ==
    (pc = "done" /\ raw_data.kind \in {"missing", "not_json"}) =>
        \A ties \in Ties :
            processed # process_market_data(market, market_map, FileList(<<>>), ties)

---------------------------------------------------------------------------
(* Claims about generate_summary_analytics *)

\* generate_summary_analytics was called and has returned
AnalyticsCalled == stages # <<>> /\ stages[Len(stages)] = "analytics"

\* C21: generate_summary_analytics called on an empty dataset returns without
\* writing a report (and so without computing a ratio), and no orchestration
\* calls it on an empty validated dataset.
C21_EmptyAnalyticsIsNoOp ==
    /\ (AnalyticsCalled /\ analytics_df = <<>>) =>
           (pc = "end" /\ summary_report = None)
    /\ (AnalyticsCalled /\ orchestration # "call") =>
           (validated_df # <<>> /\ analytics_df # <<>>)
    /\ (orchestration # "call" /\ validated_df = <<>>) => ~AnalyticsCalled

C21_Witness ==
    /\ orchestration = "call"
    /\ AnalyticsCalled
    /\ analytics_df = <<>>
    /\ summary_report = None

\* the dataset has category data: the column, and a value in it
HasCategoryData ==
    /\ analytics_df # <<>>
    /\ "category" \in DOMAIN analytics_df[1]
    /\ \E i \in DOMAIN analytics_df : ~isnull(analytics_df[i].category)

\* C22: the report written for a non-empty dataset with category data has
\* exactly the eight keys report_generated_at, total_products,
\* products_on_discount, discount_ratio, products_per_category,
\* average_price_per_category, top_10_expensive_products and
\* top_10_cheapest_products.
C22_ReportKeys ==
    (AnalyticsCalled /\ HasCategoryData) =>
        /\ summary_report # None
        /\ DOMAIN summary_report =
               {"report_generated_at", "total_products", "products_on_discount",
                "discount_ratio", "products_per_category",
                "average_price_per_category", "top_10_expensive_products",
                "top_10_cheapest_products"}

RECURSIVE InInputOrder(_, _, _)
\* the positions sorted by price, rows of an equal price in input order
InInputOrder(frame, positions, ascending) ==
    IF positions = {} THEN <<>>
    ELSE LET Before(i, j) ==
                 \/ /\ frame[i].current_price = frame[j].current_price
                    /\ i <= j
                 \/ /\ frame[i].current_price # frame[j].current_price
                    /\ IF ascending
                       THEN Less(frame[i].current_price, frame[j].current_price)
                       ELSE Less(frame[j].current_price, frame[i].current_price)
             first == CHOOSE i \in positions : \A j \in positions : Before(i, j)
         IN <<first>> \o InInputOrder(frame, positions \ {first}, ascending)

Reduced(row) ==
    [product_name |-> row.product_name, current_price |-> row.current_price]

\* the expensive list of the report is the first min(TopN, N) rows by
\* decreasing price, with ties in input order
ExpensiveInInputOrder ==
    LET order == InInputOrder(analytics_df, DOMAIN analytics_df, FALSE)
        n == Min({TopN, Len(analytics_df)})
    IN summary_report.top_10_expensive_products =
           [k \in 1..n |-> Reduced(analytics_df[order[k]])]

\* the list has the min(TopN, N) lowest prices in non-decreasing order, and
\* each entry is a row of the dataset, reduced
CheapestAscending(list) ==
    LET order == InInputOrder(analytics_df, DOMAIN analytics_df, TRUE)
        n == Min({TopN, Len(analytics_df)})
    IN /\ Len(list) = n
       /\ \A k \in 1..n :
              /\ list[k].current_price = analytics_df[order[k]].current_price
              /\ \E i \in DOMAIN analytics_df : list[k] = Reduced(analytics_df[i])

\* the cheapest list, under the key the report has for it
CheapestList ==
    IF "top_10_cheapest_products" \in DOMAIN summary_report
    THEN summary_report.top_10_cheapest_products
    ELSE summary_report.top__10_cheapest_products

SingleRecord ==
    Len(analytics_df) = 1 =>
        /\ summary_report.top_10_expensive_products = <<Reduced(analytics_df[1])>>
        /\ CheapestList = <<Reduced(analytics_df[1])>>
        /\ summary_report.total_products = PyInt(1)
        /\ summary_report.discount_ratio \in {Zero, Float(1, 0)}

\* C23: for N >= 1 records the expensive list holds the min(10, N) records
\* of the highest price in non-increasing order with ties in input order,
\* the cheapest list the min(10, N) records of the lowest price in
\* non-decreasing order, each entry reduced to (product_name,
\* current_price); for N = 1 both lists hold the one record, total_products
\* is 1 and discount_ratio is 0 or 1.
C23_TopLists ==
    (AnalyticsCalled /\ analytics_df # <<>>) =>
        /\ summary_report # None
        /\ ExpensiveInInputOrder
        /\ CheapestAscending(CheapestList)
        /\ SingleRecord

---------------------------------------------------------------------------
(* Claims about the records of create_product_data and the schema *)

\* the record as DataValidator.validate sees it: a row of the DataFrame
BuiltRow == DataFrame(<<result.value>>)[1]

\* the raw item has a product name with a non-whitespace character, a
\* current price that parses to more than 0 and a store name that is not blank
WellFormedItem ==
    /\ ~Blank(raw.product_name)
    /\ ParsedCurrent # None
    /\ Less(Zero, ParsedCurrent)
    /\ ~Blank(raw.store_name)

\* C24: a record built from a raw item with a product name that has a
\* non-whitespace character, a current price that parses to more than 0 and
\* a non-blank store name passes every rule of the schema of DataValidator.
C24_WellFormedItemPassesSchema ==
    (Built /\ WellFormedItem) => SchemaViolations(_define_schema, BuiltRow) = {}

---------------------------------------------------------------------------
(* Claims about the limits of the scrapers *)

BothLimits == scraper.total_limit # None /\ scraper.per_page_limit # None

\* the number of products the run holds: those of the lists of scrape and
\* of _scrape_products_from_url, and those of the page that is extracted
Collected ==
    LET on_page == IF pc \in {"rows", "extracted"} THEN Len(local.products) ELSE 0
        of_url == IF pc \in {"page", "navigate", "navigated", "rows", "extracted",
                             "url_returned"}
                  THEN Len(local.all_products) ELSE 0
    IN IF scraper.class = "base" THEN Len(local.all_products) + on_page
       ELSE Len(local.all_market_products) + of_url + on_page

\* C25: with total_limit T and per_page_limit P, in every state of a run of
\* scrape total_products_scraped is at most T, no product page was requested
\* with total_products_scraped >= T, at most P products are taken from a
\* page, the products collected are as many as total_products_scraped, and
\* the saved file holds at most T products.
C25_LimitsRespected ==
    BothLimits =>
        /\ scraper.total_products_scraped <= scraper.total_limit.v
        /\ \A r \in requests : r < scraper.total_limit.v
        /\ Len(local.products) <= scraper.per_page_limit.v
        /\ Collected = scraper.total_products_scraped
        /\ saved # None => Len(saved.items) <= scraper.total_limit.v

\* a run that ended at the total limit, with a page cut at the page limit
C25_Witness ==
    /\ BothLimits
    /\ pc = "done"
    /\ saved # None
    /\ Len(saved.items) = scraper.total_limit.v
    /\ Len(local.products) = scraper.per_page_limit.v
    /\ Len(local.rows) > Len(local.products)

---------------------------------------------------------------------------
(* Claims about the retries of the VeroScraper *)

\* every attempt but the last one failed
OnlyLastConcludes(attempts, failures) ==
    \A k \in 1..(Len(attempts) - 1) : attempts[k] \in failures

\* What the state shows of the two loops: the attempts are at most
\* `retries`; while a loop runs every attempt so far has failed; the result
\* of _get_market_urls is what the attempt that found links found, and []
\* after `retries` attempts that found none; the result of _navigate_to_page
\* is True when the last attempt met the table, False when it met a 404,
\* and False after `retries` attempts that failed.
RetriesBounded ==
    /\ Len(local.attempts) <= default_retries
    /\ pc \in {"urls", "navigate"} =>
           \A k \in DOMAIN local.attempts : local.attempts[k] \in {"no links", "failed"}
    /\ pc = "urls_returned" =>
           /\ OnlyLastConcludes(local.attempts, {"no links", "failed"})
           /\ IF local.attempts # <<>> /\ local.attempts[Len(local.attempts)] = "links"
              THEN local.market_urls = local.found
              ELSE /\ local.market_urls = PyInt(0)
                   /\ Len(local.attempts) = default_retries
    /\ pc = "navigated" =>
           /\ OnlyLastConcludes(local.attempts, {"failed"})
           /\ local.attempts # <<>>
           /\ LET last == local.attempts[Len(local.attempts)]
              IN CASE last = "table" -> local.navigated = PyTrue
                   [] last = "404" -> local.navigated = PyFalse
                   [] OTHER -> /\ local.navigated = PyFalse
                               /\ Len(local.attempts) = default_retries

\* What a step shows: a step of either loop makes one more attempt or
\* returns, and after a navigation that failed the pagination of the market
\* ends with the products of its earlier pages, which scrape keeps.
RetryStep ==
    /\ (pc \in {"urls", "navigate"} /\ pc' = pc) =>
           Len(local'.attempts) = Len(local.attempts) + 1
    /\ (pc = "navigated" /\ local.navigated = PyFalse) =>
           /\ pc' = "url_returned"
           /\ local'.all_products = local.all_products
    /\ pc = "url_returned" =>
           local'.all_market_products =
               local.all_market_products \o local.all_products

\* C27: _get_market_urls and _navigate_to_page make at most `retries`
\* attempts and end; _get_market_urls returns the URLs of the first attempt
\* that finds links and [] once all attempts failed; _navigate_to_page
\* returns True at the first attempt that meets the product table, False at
\* once on a 404 and False after `retries` failed attempts; a navigation
\* that failed ends the pagination of the market and keeps the products of
\* its earlier pages.
C27_RetriesAndTermination ==
    [](scraper.class = "vero" => RetriesBounded) /\ [][RetryStep]_vars

\* the third attempt to reach the second page of a market failed, and the
\* products of the first page are kept
C27_Witness ==
    /\ scraper.class = "vero"
    /\ pc = "url_returned"
    /\ local.navigated = PyFalse
    /\ local.attempts = <<"failed", "failed", "failed">>
    /\ local.all_products # <<>>

---------------------------------------------------------------------------
(* Claims about the products taken from a page *)

\* the rows of the page that give a valid product
ValidRows == Cardinality({k \in DOMAIN local.rows : local.rows[k] = "valid"})

\* _extract_products_from_page has returned, and not by an exception
Extracted == pc = "extracted" /\ ~local.failed

\* C28: VeroScraper._extract_products_from_page, called with s products
\* scraped before, limits T and P, on a page of v valid rows, returns
\* min(v, P, T - s) products: it stops for the total limit only when the
\* number collected reaches T.
C28_VeroTakesUpToLimit ==
    (scraper.class = "vero" /\ Extracted /\ BothLimits) =>
        Len(local.products) =
            Min({ValidRows, scraper.per_page_limit.v,
                 scraper.total_limit.v - local.scraped_before})

---------------------------------------------------------------------------
(* Claims about the prices the scrapers accept *)

\* the scraper accepts a product with this price text (and some name)
Accepted29 == IsStr(price_str) /\ _is_raw_product_valid(<<"x">>, price_str.s)

\* C29: when _is_raw_product_valid accepts a raw product, _extract_price
\* of the same price text returns the value of the scraper's own parse, and
\* that value is > 0: no accepted product gets a null or non-positive
\* current_price.
C29_AcceptedPriceAgrees ==
    (pc = "done" /\ Accepted29) =>
        /\ price_val # None
        /\ price_val = ScraperPrice(Strip(price_str.s))
        /\ Less(Zero, price_val)

\* "1,1" is accepted and is 1.1 for both
C29_Witness ==
    /\ pc = "done"
    /\ Accepted29
    /\ price_str = Str(<<"1", ",", "1">>)
    /\ price_val = Float(11, 1)

---------------------------------------------------------------------------
(* Claims about repeated calls of validate *)

\* the state is the one a call of validate on df leaves on a new instance
AsOnNewInstance ==
    \E out \in validate(_define_schema, df) :
        /\ validation_errors = out.validation_errors
        /\ report = out.report
        /\ validated_df = out.validated_df

\* C30: after any sequence of calls of validate on one instance,
\* validation_errors and the report hold the errors of the input of the
\* latest call and no other: the result of a call does not depend on the
\* calls before it.
C30_NoCarryOver ==
    pc \in {"done", "again"} =>
        /\ AsOnNewInstance
        /\ report.validation_errors = validation_errors
        /\ \A k \in DOMAIN validation_errors :
               /\ validation_errors[k].record_index < Len(df)
               /\ SchemaViolations(_define_schema,
                                   df[validation_errors[k].record_index + 1]) # {}
        /\ Len(validation_errors) =
               Cardinality({i \in DOMAIN df : SchemaViolations(_define_schema, df[i]) # {}})

\* a further call on the instance has returned, on a frame of one record
\* without errors: nothing of the earlier calls is left
C30_Witness ==
    /\ pc = "again"
    /\ Len(df) = 1
    /\ SchemaViolations(_define_schema, df[1]) = {}
    /\ validation_errors = <<>>
    /\ report.validation_summary.records_failed_schema = 0
    /\ validated_df = df

---------------------------------------------------------------------------
(* Claims about the order of the stages *)

Rank(stage) ==
    CASE stage = "scrape" -> 1
      [] stage = "process" -> 2
      [] stage = "validate" -> 3
      [] stage = "analytics" -> 4

Ran(stage) == \E i \in DOMAIN stages : stages[i] = stage

\* the stages start with scrape, none is passed over, none runs after a later
\* one; only the DAG runs a stage again, and then at most `retries` times
InOrder ==
    /\ stages # <<>> => stages[1] = "scrape"
    /\ \A i \in DOMAIN stages :
           i > 1 => Rank(stages[i]) - Rank(stages[i - 1]) \in
                        (IF orchestration = "dag" THEN {0, 1} ELSE {1})
    /\ \A stage \in {"scrape", "process", "validate", "analytics"} :
           Cardinality({i \in DOMAIN stages : stages[i] = stage}) <= retries + 1

ScrapeGaveFile == raw_data # None /\ raw_data.items # <<>>

ProcessGaveRows == processed # None /\ ~processed.raised /\ processed.value # <<>>

\* validate has returned: the rows that pass the schema, then without the
\* duplicates, and there are some
ValidateGaveRows ==
    /\ report # None
    /\ validated_df # <<>>
    /\ \E out \in validate(_define_schema, df) : validated_df = out.validated_df

\* the stage called last raised, or gave nothing for the next stage
LastStageFailed ==
    /\ stages # <<>>
    /\ LET last == stages[Len(stages)]
       IN  \/ last = "scrape" /\ ~ScrapeGaveFile
           \/ last = "process" /\ (processed = None \/ ~ProcessGaveRows)

\* C26: in main, in the DAG and in run_pipeline_locally the stages run in
\* the order scrape, process, validate, analytics; a stage runs only when
\* the stage before it gave a non-empty output (a scraped file, processed
\* rows, rows left by the schema check and the deduplication of the whole
\* frame); in run_pipeline_locally a stage that raises ends the run.
C26_StagesInOrder ==
    orchestration \in {"main", "dag", "local"} =>
        /\ InOrder
        /\ Ran("process") => ScrapeGaveFile
        /\ Ran("validate") => ProcessGaveRows /\ Len(df) = Len(processed.value)
        /\ Ran("analytics") =>
               /\ ValidateGaveRows
               /\ Len(analytics_df) = Len(validated_df)
               /\ summary_report # None
        /\ pc \in {"process", "validate", "analytics"} => Ran("scrape")
        /\ (orchestration = "local" /\ LastStageFailed) => pc = "end" /\ tries = 0

\* the DAG ran the four stages, the scrape twice: its first try failed
C26_Witness ==
    /\ orchestration = "dag"
    /\ stages = <<"scrape", "scrape", "process", "validate", "analytics">>
    /\ pc = "end"
    /\ summary_report # None

\* the local runner stopped at a processing that gave no rows
C26_LocalStopped ==
    /\ orchestration = "local"
    /\ stages = <<"scrape", "process">>
    /\ LastStageFailed
    /\ pc = "end"

====
